---- MODULE Spec2Model ----
(***************************************************************************)
(* Ticket ownership / lifecycle engine and check-in protocol of the        *)
(* TicketRunners backend (backend/tickets, backend/apps/webapp,            *)
(* backend/apps/usher_portal).                                             *)
(*                                                                         *)
(* A customer is identified by its mobile number (Customer.mobile_number   *)
(* is unique), a ticket by its position in the tickets table, which is     *)
(* also its purchase order (Ticket.purchase_date defaults to               *)
(* timezone.now at creation).  0 stands for NULL in a reference column.    *)
(***************************************************************************)
EXTENDS Integers, Sequences, FiniteSets, TLC

\* ---------------------------------------------------------------- bounds
NCustomers == 3
MaxTickets == 1
MaxTransfers == 1
MaxPayments == 2
MaxNow == 3
MaxQuantity == 2
MaxIssued == 2
MaxOtps == 3

\* ------------------------------------------------------ program constants
DefaultPrice == 300

Mobiles == 1 .. NCustomers
Events == {1}
UnknownEvent == 9
EventIds == Events \cup {UnknownEvent}
Serials == {"S1", "S2"}
UnknownSerial == "S9"
SerialIds == Serials \cup {UnknownSerial}
NullStr == "NULL"
Null == 0

TicketStatus == {"valid", "used", "refunded", "banned"}
ScanResults == {"valid", "invalid", "already_scanned", "not_found"}

VARIABLES
    customers,   \* Customer rows, by mobile number (rows: how many there are)
    events,      \* Event rows (configuration)
    tickets,     \* Ticket rows, in creation (purchase) order
    transfers,   \* TicketTransfer rows, append-only
    payments,    \* PaymentTransaction rows
    cards,       \* NFCCard rows, by serial number
    logs,        \* CheckinLog rows, append-only
    otps,        \* OTP rows with used = False
    reg_cache,   \* cache entries registration_<mobile>
    now,         \* timezone.now(), in ticks
    last,        \* the last request served and its response
    procs        \* the check-in requests in flight, step by step

vars == <<customers, events, tickets, transfers, payments, cards, logs,
          otps, reg_cache, now, last, procs>>

\* ----------------------------------------------------------- fixtures
\* TicketCategory rows of an event: name -> price, total_tickets.
\* "GA" is a category label without a TicketCategory row.
TicketCategory ==
    [e \in Events |-> [VIP  |-> [price |-> 100, total_tickets |-> 2],
                       GOLD |-> [price |-> 200, total_tickets |-> 1]]]

HasCategory(e, name) == name \in DOMAIN TicketCategory[e]

\* Event rows the store can hold: transfers on/off, and the transfer fee
\* configuration read by user_ticket_transfer.
EventConfigs ==
    { [ticket_transfer_enabled |-> TRUE,  transfer_fee_type |-> "flat",
       transfer_fee_value |-> 0, total_tickets |-> 3, ticket_limit |-> 2,
       starting_price |-> 0],
      [ticket_transfer_enabled |-> TRUE,  transfer_fee_type |-> "percentage",
       transfer_fee_value |-> 10, total_tickets |-> 3, ticket_limit |-> 2,
       starting_price |-> 50],
      [ticket_transfer_enabled |-> TRUE,  transfer_fee_type |-> "flat",
       transfer_fee_value |-> 5, total_tickets |-> 3, ticket_limit |-> 2,
       starting_price |-> 50],
      [ticket_transfer_enabled |-> FALSE, transfer_fee_type |-> "flat",
       transfer_fee_value |-> 5, total_tickets |-> 3, ticket_limit |-> 1,
       starting_price |-> 50] }

\* ------------------------------------------------------------- helpers
Exists(m) == m \in Mobiles /\ customers[m].status # "none"

Active(m) == m \in Mobiles /\ customers[m].status = "active"

TicketIds == 1 .. Len(tickets)

\* Default queryset order of Ticket (Meta.ordering = ['-purchase_date']):
\* .first() of a filtered queryset is the most recently purchased match.
First(S) == IF S = {} THEN Null ELSE CHOOSE t \in S : \A u \in S : u <= t

\* the last request answered: its operation, the card and event it named
\* (check-in requests), and the response; result, ticket_status and
\* scan_status are the fields of the scan responses
RespondCard(op, card, event, code, ticket, result, ticket_status, scan_status) ==
    last' = [op |-> op, card |-> card, event |-> event, code |-> code,
             ticket |-> ticket, result |-> result,
             ticket_status |-> ticket_status, scan_status |-> scan_status]

RespondScan(op, code, ticket, result, ticket_status, scan_status) ==
    RespondCard(op, NullStr, Null, code, ticket, result, ticket_status, scan_status)

Respond(op, code, ticket) == RespondScan(op, code, ticket, "", "", "")

\* the workers that serve check-in requests concurrently
Procs == {"w1", "w2"}

NoRow == [event |-> Null, customer |-> Null, buyer |-> Null, category |-> NullStr,
          price |-> 0, status |-> NullStr, check_in_time |-> Null,
          assigned_name |-> NullStr, assigned_mobile |-> Null,
          assigned_email |-> NullStr]

Idle == [pc |-> "idle", op |-> "", card |-> NullStr, event |-> Null, result |-> "",
         ticket |-> Null, snap |-> NoRow, card_snap |-> Null, code |-> "",
         pre |-> NullStr, transition |-> FALSE, logged |-> 0,
         customer |-> Null, category |-> NullStr, quantity |-> 0, available |-> 0,
         customer_snap |-> [total_bookings |-> 0, total_spent |-> 0],
         recipient_mobile |-> Null, recipient_name |-> NullStr, recipient |-> Null,
         transfer_fee |-> 0, queue |-> {}, table |-> << >>, wrote |-> {},
         otp |-> [phone_number |-> Null, purpose |-> NullStr, code |-> Null,
                  expires_at |-> Null]]

Init ==
    /\ customers = [m \in Mobiles |->
                      [status |-> IF m <= 2 THEN "active" ELSE "none",
                       total_bookings |-> 0, total_spent |-> 0, password |-> 0,
                       rows |-> IF m <= 2 THEN 1 ELSE 0]]
    /\ events \in [Events -> EventConfigs]
    /\ tickets = << >>
    /\ transfers = << >>
    /\ payments = << >>
    /\ cards = [s \in Serials |->
                  IF s = "S1" THEN [customer |-> 1, status |-> "active", usage_count |-> 0, last_used |-> Null]
                  ELSE [customer |-> Null, status |-> "pending", usage_count |-> 0, last_used |-> Null]]
    /\ logs = << >>
    /\ otps = {}
    /\ reg_cache = [m \in Mobiles |-> "none"]
    /\ now = 1
    /\ last = [op |-> "init", card |-> NullStr, event |-> Null, code |-> "OK",
               ticket |-> Null, result |-> "",
               ticket_status |-> "", scan_status |-> ""]
    /\ procs = [p \in Procs |-> Idle]

\* ------------------------------------------------- availability / pricing
\* TicketCategory.sold_tickets
sold_tickets(e, name) ==
    Cardinality({t \in TicketIds : /\ tickets[t].event = e
                                   /\ tickets[t].category = name
                                   /\ tickets[t].status \in {"valid", "used"}})

\* an availability that ignores the tickets sold
tickets_available_total(e, name) == TicketCategory[e][name].total_tickets

\* an availability that holds one ticket back
tickets_available_reserves_one(e, name) ==
    TicketCategory[e][name].total_tickets - sold_tickets(e, name) - 1

\* TicketCategory.tickets_available
tickets_available(e, name) == TicketCategory[e][name].total_tickets - sold_tickets(e, name)

\* Event.tickets_sold
tickets_sold(e) ==
    Cardinality({t \in TicketIds : /\ tickets[t].event = e
                                   /\ tickets[t].status \in {"valid", "used"}})

\* Event.tickets_available
Event_tickets_available(e) == events[e].total_tickets - tickets_sold(e)

\* price of one ticket of a category, with the fallback to the event's
\* starting_price and then to the default price
price_per_ticket(e, name) ==
    IF HasCategory(e, name) THEN TicketCategory[e][name].price
    ELSE IF events[e].starting_price # 0 THEN events[e].starting_price
    ELSE DefaultPrice

\* ------------------------------------------------------------ ticket_book
NoPrice == 0 - 1

\* per-ticket details a booking request can carry
RequestDetails ==
    { << >>,
      << [is_owner |-> FALSE, name |-> "Bob", mobile |-> 3, email |-> NullStr,
          category |-> NullStr, price |-> NoPrice] >>,
      << [is_owner |-> FALSE, name |-> "Bob", mobile |-> 2, email |-> NullStr,
          category |-> NullStr, price |-> NoPrice] >> }

\* TicketBookingSerializer declares event_id, category, quantity and
\* payment_method only: validated_data carries no 'ticket_details' key, so
\* validated_data.get('ticket_details', []) is the empty list.
validated_ticket_details(req_details) == << >>

\* the row ticket_book builds for the i-th ticket of a booking; customer is
\* Null when the code supplies none (Ticket.objects.create then raises)
ticket_data(c, e, category, price, ticket_details, i) ==
    LET has == i <= Len(ticket_details)
        detail == ticket_details[i]
        cat == IF has /\ detail.category # NullStr THEN detail.category ELSE category
        prc == IF has /\ detail.category # NullStr THEN price_per_ticket(e, detail.category)
               ELSE IF has /\ detail.price # NoPrice THEN detail.price
               ELSE price
        assign == has /\ ~detail.is_owner
        a_name == IF assign /\ detail.name # "" THEN detail.name ELSE NullStr
        a_mobile == IF assign THEN detail.mobile ELSE Null
        a_email == IF assign THEN detail.email ELSE NullStr
        holder == IF ~assign THEN c
                  ELSE IF a_mobile = Null THEN Null
                  ELSE IF Exists(a_mobile) THEN a_mobile
                  ELSE c
    IN [event |-> e, customer |-> holder, buyer |-> c, category |-> cat,
        price |-> prc, status |-> "valid", check_in_time |-> Null,
        assigned_name |-> a_name, assigned_mobile |-> a_mobile,
        assigned_email |-> a_email]

RECURSIVE created_tickets(_, _, _, _, _, _, _)
\* the rows created by the loop over range(quantity), up to the first
\* Ticket.objects.create that raises
created_tickets(c, e, category, price, ticket_details, i, quantity) ==
    IF i > quantity THEN << >>
    ELSE LET row == ticket_data(c, e, category, price, ticket_details, i)
         IN IF row.customer = Null THEN << >>
            ELSE <<row>> \o created_tickets(c, e, category, price, ticket_details, i + 1, quantity)

ticket_book(c, e, category, quantity, req_details) ==
    /\ Exists(c)
    /\ UNCHANGED <<events, transfers, cards, logs, otps, reg_cache, now>>
    /\ IF e \notin Events
       THEN /\ Respond("ticket_book", "NOT_FOUND", Null)
            /\ UNCHANGED <<customers, tickets, payments>>
       ELSE LET available == IF HasCategory(e, category)
                             THEN tickets_available(e, category)
                             ELSE Event_tickets_available(e)
                price == price_per_ticket(e, category)
                total_amount == price * quantity
                ticket_details == validated_ticket_details(req_details)
                rows == created_tickets(c, e, category, price, ticket_details, 1, quantity)
                transaction == [customer |-> c, ticket |-> Null, amount |-> total_amount,
                                status |-> "pending"]
            IN IF available < quantity
               THEN /\ Respond("ticket_book", "INSUFFICIENT_TICKETS", Null)
                    /\ UNCHANGED <<customers, tickets, payments>>
               ELSE IF quantity > events[e].ticket_limit
               THEN /\ Respond("ticket_book", "TICKET_LIMIT_EXCEEDED", Null)
                    /\ UNCHANGED <<customers, tickets, payments>>
               ELSE IF Len(rows) < quantity
               THEN \* an exception after the payment row and some tickets were written
                    /\ tickets' = tickets \o rows
                    /\ payments' = Append(payments, transaction)
                    /\ UNCHANGED customers
                    /\ Respond("ticket_book", "BOOKING_ERROR", Null)
               ELSE /\ tickets' = tickets \o rows
                    /\ payments' = Append(payments, [transaction EXCEPT !.status = "completed"])
                    /\ customers' = [customers EXCEPT
                                       ![c].total_bookings = @ + quantity,
                                       ![c].total_spent = @ + total_amount]
                    /\ Respond("ticket_book", "CREATED", Len(tickets) + 1)

\* ---------------------------------------------------------- transfer / gift
UnknownTicket == 99

TicketRefs == TicketIds \cup {UnknownTicket}

\* the transfer fee of user_ticket_transfer: a flat amount or a percentage
\* of the ticket price, per event configuration
transfer_fee(t) ==
    LET event == events[tickets[t].event]
    IN IF event.transfer_fee_value # 0
       THEN IF event.transfer_fee_type = "percentage"
            THEN (tickets[t].price * event.transfer_fee_value) \div 100
            ELSE event.transfer_fee_value
       ELSE 0

\* a transfer that records the outgoing holder as the buyer
transfer_row_rebuys(t, recipient_mobile, recipient_name) ==
    [tickets[t] EXCEPT !.customer = IF Active(recipient_mobile) THEN recipient_mobile ELSE @,
                       !.buyer = tickets[t].customer,
                       !.assigned_mobile = IF Active(recipient_mobile) THEN Null ELSE recipient_mobile]

\* a transfer to a customer on file that keeps the pending assignment
transfer_row_keeps_pending(t, recipient_mobile, recipient_name) ==
    IF Active(recipient_mobile)
    THEN [tickets[t] EXCEPT !.customer = recipient_mobile]
    ELSE [tickets[t] EXCEPT !.assigned_name = recipient_name,
                            !.assigned_mobile = recipient_mobile,
                            !.assigned_email = NullStr]

\* a transfer that hands the ticket over free of charge
transfer_row_free(t, recipient_mobile, recipient_name) ==
    [tickets[t] EXCEPT !.customer = IF Active(recipient_mobile) THEN recipient_mobile ELSE @,
                       !.assigned_mobile = IF Active(recipient_mobile) THEN Null ELSE recipient_mobile,
                       !.price = 0]

\* the ticket row user_ticket_transfer saves
transfer_row(t, recipient_mobile, recipient_name) ==
    LET ticket == tickets[t]
        original_buyer == IF ticket.buyer # Null THEN ticket.buyer ELSE ticket.customer
        buyer == IF ticket.buyer = Null THEN original_buyer ELSE ticket.buyer
    IN IF Active(recipient_mobile)
       THEN [ticket EXCEPT !.customer = recipient_mobile,
                           !.buyer = buyer,
                           !.assigned_name = NullStr,
                           !.assigned_mobile = Null,
                           !.assigned_email = NullStr]
       ELSE [ticket EXCEPT !.assigned_name = recipient_name,
                           !.assigned_mobile = recipient_mobile,
                           !.assigned_email = NullStr,
                           !.buyer = buyer]

\* a transfer that does not test the ticket's status
transfer_error_skips_status(c, t) ==
    IF ~(t \in TicketIds /\ tickets[t].customer = c) THEN "NOT_FOUND"
    ELSE IF ~events[tickets[t].event].ticket_transfer_enabled THEN "TRANSFER_DISABLED"
    ELSE ""

\* the error user_ticket_transfer answers before it writes anything, ""
\* when the transfer goes ahead
transfer_error(c, t) ==
    IF ~(t \in TicketIds /\ tickets[t].customer = c) THEN "NOT_FOUND"
    ELSE IF tickets[t].status # "valid" THEN "INVALID_TICKET"
    ELSE IF ~events[tickets[t].event].ticket_transfer_enabled THEN "TRANSFER_DISABLED"
    ELSE ""

user_ticket_transfer(c, t, recipient_mobile, recipient_name) ==
    /\ Exists(c)
    /\ Len(transfers) < MaxTransfers
    /\ Len(payments) < MaxPayments
    /\ UNCHANGED <<customers, events, cards, logs, otps, reg_cache, now>>
    /\ IF transfer_error(c, t) # ""
       THEN /\ Respond("user_ticket_transfer", transfer_error(c, t),
                       IF transfer_error(c, t) = "NOT_FOUND" THEN Null ELSE t)
            /\ UNCHANGED <<tickets, transfers, payments>>
       ELSE /\ payments' = IF transfer_fee(t) > 0
                           THEN Append(payments, [customer |-> c, ticket |-> t,
                                                  amount |-> transfer_fee(t),
                                                  status |-> "completed"])
                           ELSE payments
            /\ tickets' = [tickets EXCEPT ![t] = transfer_row(t, recipient_mobile, recipient_name)]
            /\ transfers' = IF Active(recipient_mobile)
                            THEN Append(transfers, [ticket |-> t,
                                                    from_customer |-> tickets[t].customer,
                                                    to_customer |-> recipient_mobile,
                                                    status |-> "completed"])
                            ELSE transfers
            /\ Respond("user_ticket_transfer", "OK", t)

\* the ticket row user_ticket_gift saves
gift_row(t, recipient_mobile) == [tickets[t] EXCEPT !.customer = recipient_mobile]

\* a gift that does not look the recipient up among the active customers
gift_error_any_recipient(c, t, recipient_mobile) ==
    IF ~(t \in TicketIds /\ tickets[t].customer = c) THEN "NOT_FOUND"
    ELSE IF tickets[t].status # "valid" THEN "INVALID_TICKET"
    ELSE ""

\* the error user_ticket_gift answers before it writes anything, "" when
\* the gift goes ahead
gift_error(c, t, recipient_mobile) ==
    IF ~(t \in TicketIds /\ tickets[t].customer = c) THEN "NOT_FOUND"
    ELSE IF tickets[t].status # "valid" THEN "INVALID_TICKET"
    ELSE IF ~Active(recipient_mobile) THEN "RECIPIENT_NOT_FOUND"
    ELSE ""

user_ticket_gift(c, t, recipient_mobile) ==
    /\ Exists(c)
    /\ UNCHANGED <<customers, events, transfers, payments, cards, logs, otps, reg_cache, now>>
    /\ IF gift_error(c, t, recipient_mobile) # ""
       THEN /\ Respond("user_ticket_gift", gift_error(c, t, recipient_mobile),
                       IF gift_error(c, t, recipient_mobile) = "NOT_FOUND" THEN Null ELSE t)
            /\ UNCHANGED tickets
       ELSE /\ tickets' = [tickets EXCEPT ![t] = gift_row(t, recipient_mobile)]
            /\ Respond("user_ticket_gift", "OK", t)

\* the ticket row TicketViewSet.transfer saves
admin_transfer_row(t, to_customer) == [tickets[t] EXCEPT !.customer = to_customer]

\* TicketViewSet.transfer (actor Null: role ADMIN or SUPER_ADMIN)
TicketViewSet_transfer(actor, t, to_customer) ==
    /\ Len(transfers) < MaxTransfers
    /\ UNCHANGED <<customers, events, payments, cards, logs, otps, reg_cache, now>>
    /\ IF t \notin TicketIds
       THEN /\ Respond("TicketViewSet_transfer", "NOT_FOUND", Null)
            /\ UNCHANGED <<tickets, transfers>>
       ELSE IF ~events[tickets[t].event].ticket_transfer_enabled \/ tickets[t].status # "valid"
       THEN /\ Respond("TicketViewSet_transfer", "VALIDATION_ERROR", t)
            /\ UNCHANGED <<tickets, transfers>>
       ELSE IF ~Exists(to_customer)
       THEN /\ Respond("TicketViewSet_transfer", "NOT_FOUND", t)
            /\ UNCHANGED <<tickets, transfers>>
       ELSE IF actor # Null /\ tickets[t].customer # actor
       THEN /\ Respond("TicketViewSet_transfer", "PERMISSION_DENIED", t)
            /\ UNCHANGED <<tickets, transfers>>
       ELSE /\ transfers' = Append(transfers, [ticket |-> t,
                                               from_customer |-> tickets[t].customer,
                                               to_customer |-> to_customer,
                                               status |-> "completed"])
            /\ tickets' = [tickets EXCEPT ![t] = admin_transfer_row(t, to_customer)]
            /\ Respond("TicketViewSet_transfer", "OK", t)

\* ------------------------------------------------------------------- link
\* the row the linking loop saves for a ticket assigned to mobile m
link_row(ticket, m) ==
    LET original_buyer == IF ticket.buyer # Null THEN ticket.buyer ELSE ticket.customer
    IN [ticket EXCEPT !.customer = m,
                      !.buyer = IF ticket.buyer = Null THEN original_buyer ELSE ticket.buyer,
                      !.assigned_name = NullStr,
                      !.assigned_mobile = Null,
                      !.assigned_email = NullStr]

\* the tickets the linking step selects: assigned to the mobile, valid, and
\* not already held by the customer
assigned_tickets(m) ==
    {t \in TicketIds : /\ tickets[t].assigned_mobile = m
                       /\ tickets[t].status = "valid"
                       /\ tickets[t].customer # m}

\* a linking step that selects by the pending mobile alone, keeps it, and
\* records the previous holder as the buyer
link_keeps_pending_moves_buyer(m) ==
    [t \in TicketIds |-> IF tickets[t].assigned_mobile = m /\ tickets[t].status = "valid"
                         THEN [tickets[t] EXCEPT !.customer = m,
                                                 !.buyer = tickets[t].customer]
                         ELSE tickets[t]]

\* the linking step of user_complete_registration and user_verify_login_otp
link(m) == [t \in TicketIds |-> IF t \in assigned_tickets(m)
                                THEN link_row(tickets[t], m)
                                ELSE tickets[t]]

\* --------------------------------------------------------- my tickets
\* the query of user_tickets_list, user_me_bookings and user_ticket_detail:
\* filter(customer | assigned_mobile = the customer's mobile | buyer and a
\* pending mobile), exclude(buyer, not holder, no pending mobile)
visible(c, t) ==
    /\ \/ tickets[t].customer = c
       \/ tickets[t].assigned_mobile = c
       \/ tickets[t].buyer = c /\ tickets[t].assigned_mobile # Null
    /\ ~ (/\ tickets[t].buyer = c
          /\ tickets[t].customer # c
          /\ tickets[t].assigned_mobile = Null)

\* user_ticket_detail of an authenticated customer
user_ticket_detail(c, t) ==
    /\ Exists(c)
    /\ UNCHANGED <<customers, events, tickets, transfers, payments, cards, logs,
                   otps, reg_cache, now>>
    /\ IF t \notin TicketIds
       THEN Respond("user_ticket_detail", "NOT_FOUND", Null)
       ELSE IF visible(c, t)
       THEN Respond("user_ticket_detail", "OK", t)
       ELSE IF tickets[t].buyer = c /\ tickets[t].customer # c
       THEN Respond("user_ticket_detail", "TICKET_TRANSFERRED", Null)
       ELSE Respond("user_ticket_detail", "NOT_FOUND", Null)

\* user_tickets_list of an authenticated customer: the response names the
\* first ticket of the list (the latest purchase), Null for an empty list
user_tickets_list(c) ==
    /\ Exists(c)
    /\ UNCHANGED <<customers, events, tickets, transfers, payments, cards, logs,
                   otps, reg_cache, now>>
    /\ Respond("user_tickets_list", "OK", First({t \in TicketIds : visible(c, t)}))

\* ---------------------------------------------------------------- OTP
\* The table holds the OTP rows whose used flag is False, each with its
\* phone_number, purpose, code and expires_at; setting used = True on a row
\* takes it out of the table, since every query of the service filters on
\* used = False.  A row whose expires_at has passed stays in the table.
\* The lifetime of an OTP (five minutes), in ticks of now.
OtpLifetime == 1

\* the codes generate_otp_code can draw
OtpCodes == {1, 2}

\* the unused rows a query for (phone_number, purpose) returns, with
\* expires_at ahead of now
unexpired(phone_number, purpose) ==
    {otp \in otps : /\ otp.phone_number = phone_number
                    /\ otp.purpose = purpose
                    /\ otp.expires_at > now}

\* a create_and_send_otp that leaves the earlier rows as they are
create_and_send_otp_keeps_earlier(phone_number, purpose, code) ==
    otps \cup {[phone_number |-> phone_number, purpose |-> purpose, code |-> code,
                expires_at |-> now + OtpLifetime]}

\* create_and_send_otp: the unused, unexpired rows of the phone and purpose
\* are marked used, and a row with the generated code is created
create_and_send_otp(phone_number, purpose, code) ==
    (otps \ unexpired(phone_number, purpose))
        \cup {[phone_number |-> phone_number, purpose |-> purpose, code |-> code,
               expires_at |-> now + OtpLifetime]}

\* a lookup that does not filter on the purpose
otp_lookup_any_purpose(phone_number, code, purpose) ==
    {otp \in otps : /\ otp.phone_number = phone_number
                    /\ otp.code = code
                    /\ otp.expires_at > now}

\* the rows the lookup of verify_otp matches
otp_lookup(phone_number, code, purpose) ==
    {otp \in unexpired(phone_number, purpose) : otp.code = code}

\* a verify_otp that accepts every code
verify_otp_accepts_any(phone_number, code, purpose) == TRUE

\* verify_otp: TRUE exactly when an unused, unexpired row matches
verify_otp(phone_number, code, purpose) == otp_lookup(phone_number, code, purpose) # {}

\* a verify_otp that answers without marking the row used
otps_after_verify_unmarked(phone_number, code, purpose) == otps

\* the OTP table after verify_otp: the first match (the latest created) is
\* marked used
otps_after_verify(phone_number, code, purpose) ==
    LET found == otp_lookup(phone_number, code, purpose)
    IN IF found = {} THEN otps
       ELSE otps \ {CHOOSE otp \in found : \A o \in found : o.expires_at <= otp.expires_at}

\* a call of create_and_send_otp by any view, for any phone and purpose
create_and_send_otp_call(phone_number, purpose, code) ==
    /\ Cardinality(otps) < MaxOtps
    /\ otps' = create_and_send_otp(phone_number, purpose, code)
    /\ Respond("create_and_send_otp", "OK", Null)
    /\ UNCHANGED <<customers, events, tickets, transfers, payments, cards, logs,
                   reg_cache, now>>

\* a call of verify_otp by any view: the answer is TRUE or FALSE
verify_otp_call(phone_number, code, purpose) ==
    /\ otps' = otps_after_verify(phone_number, code, purpose)
    /\ Respond("verify_otp", IF verify_otp(phone_number, code, purpose) THEN "TRUE" ELSE "FALSE",
               Null)
    /\ UNCHANGED <<customers, events, tickets, transfers, payments, cards, logs,
                   reg_cache, now>>

\* verify_otp, step by step: the lookup of the first matching row
otp_read(p, phone_number, code, purpose) ==
    /\ procs[p].pc = "idle"
    /\ LET found == otp_lookup(phone_number, code, purpose)
           call == [Idle EXCEPT !.op = "verify_otp"]
       IN IF found = {}
          THEN procs' = [procs EXCEPT ![p] = [call EXCEPT !.pc = "done", !.code = "FALSE"]]
          ELSE procs' = [procs EXCEPT ![p] =
                  [call EXCEPT !.pc = "mark",
                               !.otp = CHOOSE otp \in found :
                                          \A o \in found : o.expires_at <= otp.expires_at]]
    /\ UNCHANGED <<customers, events, tickets, transfers, payments, cards, logs,
                   otps, reg_cache, now, last>>

\* verify_otp, step by step: otp.used = True is saved and True returned
otp_mark(p) ==
    /\ procs[p].pc = "mark"
    /\ otps' = otps \ {procs[p].otp}
    /\ procs' = [procs EXCEPT ![p].pc = "done", ![p].code = "TRUE"]
    /\ Respond("verify_otp", "TRUE", Null)
    /\ UNCHANGED <<customers, events, tickets, transfers, payments, cards, logs,
                   reg_cache, now>>

\* the cache timeout (600 s) of a registration entry passes
cache_expires(m) ==
    /\ reg_cache[m] # "none"
    /\ reg_cache' = [reg_cache EXCEPT ![m] = "none"]
    /\ Respond("cache_expires", "OK", Null)
    /\ UNCHANGED <<customers, events, tickets, transfers, payments, cards, logs, otps, now>>

\* ------------------------------------------------------- registration
user_register(m, code, sms_ok) ==
    /\ UNCHANGED <<customers, events, tickets, transfers, payments, cards, logs, now>>
    /\ IF Exists(m)
       THEN /\ Respond("user_register", "VALIDATION_ERROR", Null)
            /\ UNCHANGED <<otps, reg_cache>>
       ELSE /\ otps' = create_and_send_otp(m, "registration", code)
            /\ IF ~sms_ok
               THEN /\ Respond("user_register", "OTP_SEND_FAILED", Null)
                    /\ UNCHANGED reg_cache
               ELSE /\ reg_cache' = [reg_cache EXCEPT ![m] = "started"]
                    /\ Respond("user_register", "OK", Null)

user_verify_otp(m, otp_code) ==
    /\ UNCHANGED <<customers, events, tickets, transfers, payments, cards, logs, now>>
    /\ otps' = otps_after_verify(m, otp_code, "registration")
    /\ IF ~verify_otp(m, otp_code, "registration")
       THEN /\ Respond("user_verify_otp", "VALIDATION_ERROR", Null)
            /\ UNCHANGED reg_cache
       ELSE IF reg_cache[m] = "none"
       THEN /\ Respond("user_verify_otp", "SESSION_EXPIRED", Null)
            /\ UNCHANGED reg_cache
       ELSE /\ reg_cache' = [reg_cache EXCEPT ![m] = "verified"]
            /\ Respond("user_verify_otp", "OK", Null)

user_complete_registration(m) ==
    /\ UNCHANGED <<events, transfers, payments, cards, logs, otps, now>>
    /\ IF reg_cache[m] = "none"
       THEN /\ Respond("user_complete_registration", "SESSION_EXPIRED", Null)
            /\ UNCHANGED <<customers, tickets, reg_cache>>
       ELSE IF reg_cache[m] # "verified"
       THEN /\ Respond("user_complete_registration", "NOT_VERIFIED", Null)
            /\ UNCHANGED <<customers, tickets, reg_cache>>
       ELSE IF Exists(m)
       THEN /\ reg_cache' = [reg_cache EXCEPT ![m] = "none"]
            /\ Respond("user_complete_registration", "VALIDATION_ERROR", Null)
            /\ UNCHANGED <<customers, tickets>>
       ELSE /\ customers' = [customers EXCEPT ![m].status = "active", ![m].rows = @ + 1]
            /\ tickets' = link(m)
            /\ reg_cache' = [reg_cache EXCEPT ![m] = "none"]
            /\ Respond("user_complete_registration", "CREATED", Null)

\* ---------------------------------------------------------------- login
user_login(m, password_ok, code, sms_ok) ==
    /\ UNCHANGED <<customers, events, tickets, transfers, payments, cards, logs, reg_cache, now>>
    /\ IF ~Exists(m) \/ ~password_ok
       THEN /\ Respond("user_login", "INVALID_CREDENTIALS", Null)
            /\ UNCHANGED otps
       ELSE IF customers[m].status # "active"
       THEN /\ Respond("user_login", "ACCOUNT_INACTIVE", Null)
            /\ UNCHANGED otps
       ELSE /\ otps' = create_and_send_otp(m, "login", code)
            /\ Respond("user_login", IF sms_ok THEN "OK" ELSE "OTP_SEND_FAILED", Null)

user_verify_login_otp(m, otp_code) ==
    /\ UNCHANGED <<customers, events, transfers, payments, cards, logs, reg_cache, now>>
    /\ otps' = otps_after_verify(m, otp_code, "login")
    /\ IF ~verify_otp(m, otp_code, "login")
       THEN /\ Respond("user_verify_login_otp", "INVALID_OTP", Null)
            /\ UNCHANGED tickets
       ELSE IF ~Exists(m)
       THEN /\ Respond("user_verify_login_otp", "USER_NOT_FOUND", Null)
            /\ UNCHANGED tickets
       ELSE /\ tickets' = link(m)
            /\ Respond("user_verify_login_otp", "OK", Null)

\* ------------------------------------------------------- password reset
\* the response of a password-reset view, given the request, the OTP table
\* and whether a Customer row with the mobile number exists
reset_response(view, m, otp_code, sms_ok, customer_exists) ==
    IF view = "user_forgot_password_request_otp"
    THEN IF sms_ok THEN "OK" ELSE "OTP_SEND_FAILED"
    ELSE IF ~verify_otp(m, otp_code, "forgot_password")
    THEN IF view = "user_verify_password_reset_otp" THEN "VALIDATION_ERROR" ELSE "INVALID_OTP"
    ELSE IF ~customer_exists THEN "USER_NOT_FOUND"
    ELSE "OK"

user_forgot_password_request_otp(m, code, sms_ok) ==
    /\ Cardinality(otps) < MaxOtps
    /\ otps' = create_and_send_otp(m, "forgot_password", code)
    /\ Respond("user_forgot_password_request_otp",
               reset_response("user_forgot_password_request_otp", m, code, sms_ok, Exists(m)), Null)
    /\ UNCHANGED <<customers, events, tickets, transfers, payments, cards, logs,
                   reg_cache, now>>

\* the reset token of the response is not stored anywhere
user_verify_password_reset_otp(m, otp_code) ==
    /\ otps' = otps_after_verify(m, otp_code, "forgot_password")
    /\ Respond("user_verify_password_reset_otp",
               reset_response("user_verify_password_reset_otp", m, otp_code, TRUE, Exists(m)), Null)
    /\ UNCHANGED <<customers, events, tickets, transfers, payments, cards, logs,
                   reg_cache, now>>

user_reset_password(m, otp_code, new_password) ==
    /\ otps' = otps_after_verify(m, otp_code, "forgot_password")
    /\ Respond("user_reset_password",
               reset_response("user_reset_password", m, otp_code, TRUE, Exists(m)), Null)
    /\ customers' = IF verify_otp(m, otp_code, "forgot_password") /\ Exists(m)
                    THEN [customers EXCEPT ![m].password = new_password]
                    ELSE customers
    /\ UNCHANGED <<events, tickets, transfers, payments, cards, logs, reg_cache, now>>

\* CustomerViewSet.status
CustomerViewSet_status(m, s) ==
    /\ Exists(m)
    /\ customers' = [customers EXCEPT ![m].status = s]
    /\ Respond("CustomerViewSet_status", "OK", Null)
    /\ UNCHANGED <<events, tickets, transfers, payments, cards, logs, otps, reg_cache, now>>

\* --------------------------------------------------------------- check-in
Operators == {"usher1"}
Notes == {"note"}

CardExists(s) == s \in Serials /\ cards[s].status # "none"

\* a candidate query ordered by purchase_date ascending
candidate_ticket_oldest(c, e) ==
    LET S == {t \in TicketIds : /\ tickets[t].event = e
                                /\ (tickets[t].customer = c \/ tickets[t].buyer = c)
                                /\ tickets[t].status \notin {"refunded", "banned"}}
    IN IF S = {} THEN Null ELSE CHOOSE t \in S : \A u \in S : t <= u

\* the candidate ticket of usher_scan_attendee_by_card: the most recently
\* purchased ticket of the event that the customer holds or bought and that
\* is neither refunded nor banned
candidate_ticket(c, e) ==
    First({t \in TicketIds : /\ tickets[t].event = e
                             /\ (tickets[t].customer = c \/ tickets[t].buyer = c)
                             /\ tickets[t].status \notin {"refunded", "banned"}})

\* all_tickets of usher_scan_attendee_by_card (for customer_events)
all_tickets(c) ==
    {t \in TicketIds : /\ (tickets[t].customer = c \/ tickets[t].buyer = c)
                       /\ tickets[t].status \notin {"refunded", "banned"}}

\* the value of the local variable ticket when the response is built: the
\* loop "for ticket in all_tickets" rebinds it, and leaves it at the last
\* row iterated (the oldest one; fewer than ten events exist)
response_ticket(c, candidate) ==
    IF all_tickets(c) = {} THEN candidate
    ELSE CHOOSE t \in all_tickets(c) : \A u \in all_tickets(c) : t <= u

\* ticket_status of the attendee response
attendee_ticket_status(candidate) ==
    IF candidate = Null THEN "invalid"
    ELSE IF tickets[candidate].status \in {"valid", "used"} THEN "valid"
    ELSE "invalid"

\* scan_status of the attendee response
attendee_scan_status(candidate) ==
    IF candidate # Null /\ tickets[candidate].status = "used" THEN "already_scanned"
    ELSE "not_scanned"

\* a look-up that checks the resolved ticket in
attendee_tickets_checks_in(card_id, event_id) ==
    LET candidate == IF CardExists(card_id) /\ cards[card_id].customer # Null
                        /\ event_id \in Events
                     THEN candidate_ticket(cards[card_id].customer, event_id)
                     ELSE Null
    IN IF candidate # Null /\ tickets[candidate].status = "valid"
       THEN [tickets EXCEPT ![candidate].status = "used"]
       ELSE tickets

\* the Ticket rows after usher_scan_attendee_by_card: the view saves none
attendee_tickets(card_id, event_id) == tickets

usher_scan_attendee_by_card(card_id, event_id) ==
    /\ tickets' = attendee_tickets(card_id, event_id)
    /\ UNCHANGED <<customers, events, transfers, payments, cards, logs, otps, reg_cache, now>>
    /\ IF ~CardExists(card_id)
       THEN RespondCard("usher_scan_attendee_by_card", card_id, event_id, "NOT_FOUND", Null, "", "", "")
       ELSE IF cards[card_id].customer = Null
       THEN RespondCard("usher_scan_attendee_by_card", card_id, event_id, "NO_CUSTOMER", Null, "", "", "")
       ELSE LET customer == cards[card_id].customer
                candidate == IF event_id \in Events
                             THEN candidate_ticket(customer, event_id)
                             ELSE Null
            IN RespondCard("usher_scan_attendee_by_card", card_id, event_id, "OK",
                           response_ticket(customer, candidate), "",
                           attendee_ticket_status(candidate),
                           attendee_scan_status(candidate))

\* scan_result_map of usher_scan_result
scan_result_map(result) ==
    CASE result = "valid" -> "success"
      [] result = "invalid" -> "invalid"
      [] result = "already_scanned" -> "duplicate"
      [] result = "not_found" -> "failed"
      [] OTHER -> "failed"

\* the ticket usher_scan_result acts on: the most recently purchased ticket
\* the customer holds for the event, whatever its status
scan_ticket(c, e) ==
    First({t \in TicketIds : tickets[t].customer = c /\ tickets[t].event = e})

\* the ticket row usher_scan_result saves for a valid scan
scan_row(t) == [tickets[t] EXCEPT !.status = "used"]

\* the CheckinLog row of usher_scan_result
scan_log(customer, event, ticket, card, result, operator, notes) ==
    [customer |-> customer, event |-> event, ticket |-> ticket, nfc_card |-> card,
     scan_result |-> scan_result_map(result), scan_type |-> "nfc",
     operator |-> operator, operator_role |-> "usher", timestamp |-> now,
     notes |-> notes]

usher_scan_result(card_id, event_id, result, operator, notes) ==
    /\ now < MaxNow
    /\ now' = now + 1
    /\ UNCHANGED <<customers, events, transfers, payments, cards, otps, reg_cache>>
    /\ IF ~CardExists(card_id) \/ event_id \notin Events
       THEN /\ RespondCard("usher_scan_result", card_id, event_id, "NOT_FOUND", Null, result, "", "")
            /\ UNCHANGED <<tickets, logs>>
       ELSE IF cards[card_id].customer = Null
       THEN /\ RespondCard("usher_scan_result", card_id, event_id, "NO_CUSTOMER", Null, result, "", "")
            /\ UNCHANGED <<tickets, logs>>
       ELSE LET customer == cards[card_id].customer
                ticket == scan_ticket(customer, event_id)
            IN /\ tickets' = IF result = "valid" /\ ticket # Null
                             THEN [tickets EXCEPT ![ticket] = scan_row(ticket)]
                             ELSE tickets
               /\ logs' = Append(logs, scan_log(customer, event_id, ticket, card_id,
                                                result, operator, notes))
               /\ RespondCard("usher_scan_result", card_id, event_id, "OK", ticket, result, "", "")

\* the ticket row checkin_verify and checkin_nfc save
checkin_row(t) == [tickets[t] EXCEPT !.status = "used", !.check_in_time = now]

checkin_verify(t) ==
    /\ now < MaxNow
    /\ now' = now + 1
    /\ UNCHANGED <<customers, events, transfers, payments, cards, logs, otps, reg_cache>>
    /\ IF t \notin TicketIds
       THEN /\ Respond("checkin_verify", "TICKET_NOT_FOUND", Null)
            /\ UNCHANGED tickets
       ELSE IF tickets[t].status # "valid"
       THEN /\ Respond("checkin_verify", "INVALID_TICKET", t)
            /\ UNCHANGED tickets
       ELSE /\ tickets' = [tickets EXCEPT ![t] = checkin_row(t)]
            /\ Respond("checkin_verify", "OK", t)

\* the ticket checkin_nfc acts on: the most recently purchased valid ticket
\* the card's customer holds for the event
nfc_ticket(c, e) ==
    First({t \in TicketIds : /\ tickets[t].customer = c
                             /\ tickets[t].event = e
                             /\ tickets[t].status = "valid"})

\* the card row checkin_nfc saves
nfc_card_row(s) == [cards[s] EXCEPT !.last_used = now, !.usage_count = @ + 1]

\* event_id Null: the request carries no event_id
checkin_nfc(card_serial, event_id) ==
    /\ now < MaxNow
    /\ now' = now + 1
    /\ UNCHANGED <<customers, events, transfers, payments, logs, otps, reg_cache>>
    /\ IF ~(CardExists(card_serial) /\ cards[card_serial].status = "active")
       THEN /\ RespondCard("checkin_nfc", card_serial, event_id, "CARD_NOT_FOUND", Null, "", "", "")
            /\ UNCHANGED <<tickets, cards>>
       ELSE LET ticket == nfc_ticket(cards[card_serial].customer, event_id)
            IN IF event_id # Null /\ ticket = Null
               THEN /\ RespondCard("checkin_nfc", card_serial, event_id, "NO_TICKET", Null, "", "", "")
                    /\ UNCHANGED <<tickets, cards>>
               ELSE /\ tickets' = IF event_id # Null
                                  THEN [tickets EXCEPT ![ticket] = checkin_row(ticket)]
                                  ELSE tickets
                    /\ cards' = [cards EXCEPT ![card_serial] = nfc_card_row(card_serial)]
                    /\ RespondCard("checkin_nfc", card_serial, event_id, "OK",
                                   IF event_id # Null THEN ticket ELSE Null, "", "", "")

\* ------------------------------------------------- admin ticket actions
\* the ticket row TicketViewSet.status saves
status_row(t, new_status) ==
    LET old_status == tickets[t].status
    IN [tickets[t] EXCEPT !.status = new_status,
                          !.check_in_time = IF new_status = "used" /\ old_status = "valid"
                                            THEN now ELSE @]

\* TicketViewSet.status
TicketViewSet_status(t, new_status) ==
    /\ now < MaxNow
    /\ now' = now + 1
    /\ UNCHANGED <<customers, events, transfers, payments, cards, logs, otps, reg_cache>>
    /\ IF t \notin TicketIds
       THEN /\ Respond("TicketViewSet_status", "NOT_FOUND", Null)
            /\ UNCHANGED tickets
       ELSE /\ tickets' = [tickets EXCEPT ![t] = status_row(t, new_status)]
            /\ Respond("TicketViewSet_status", "OK", t)

\* Ticket.mark_as_used: the row it saves
mark_as_used(t) ==
    IF tickets[t].status = "valid"
    THEN [tickets[t] EXCEPT !.status = "used", !.check_in_time = now]
    ELSE tickets[t]

\* Ticket.refund: the row it saves
refund(t) ==
    IF tickets[t].status \in {"valid", "used"}
    THEN [tickets[t] EXCEPT !.status = "refunded"]
    ELSE tickets[t]

\* the CheckinLog row of TicketViewSet.checkin
checkin_log(t, operator, notes) ==
    [customer |-> tickets[t].customer, event |-> tickets[t].event, ticket |-> Null,
     nfc_card |-> NullStr, scan_result |-> "success", scan_type |-> "manual",
     operator |-> operator, operator_role |-> "", timestamp |-> now, notes |-> notes]

\* TicketViewSet.checkin
TicketViewSet_checkin(t, operator, notes) ==
    /\ now < MaxNow
    /\ now' = now + 1
    /\ UNCHANGED <<customers, events, transfers, payments, cards, otps, reg_cache>>
    /\ IF t \notin TicketIds
       THEN /\ Respond("TicketViewSet_checkin", "NOT_FOUND", Null)
            /\ UNCHANGED <<tickets, logs>>
       ELSE IF tickets[t].status # "valid"
       THEN /\ Respond("TicketViewSet_checkin", "VALIDATION_ERROR", t)
            /\ UNCHANGED <<tickets, logs>>
       ELSE /\ tickets' = [tickets EXCEPT ![t] = mark_as_used(t)]
            /\ logs' = Append(logs, checkin_log(t, operator, notes))
            /\ Respond("TicketViewSet_checkin", "OK", t)

\* a caller of the model method Ticket.refund
Ticket_refund(t) ==
    /\ t \in TicketIds
    /\ tickets' = [tickets EXCEPT ![t] = refund(t)]
    /\ Respond("Ticket_refund", IF tickets[t].status \in {"valid", "used"} THEN "OK" ELSE "FALSE", t)
    /\ UNCHANGED <<customers, events, transfers, payments, cards, logs, otps, reg_cache, now>>

\* the ticket row user_refund_request saves
refund_row(t) == [tickets[t] EXCEPT !.status = "refunded"]

user_refund_request(c, t) ==
    /\ Exists(c)
    /\ Len(payments) < MaxPayments
    /\ UNCHANGED <<customers, events, transfers, cards, logs, otps, reg_cache, now>>
    /\ IF ~(t \in TicketIds /\ tickets[t].customer = c)
       THEN /\ Respond("user_refund_request", "NOT_FOUND", Null)
            /\ UNCHANGED <<tickets, payments>>
       ELSE IF tickets[t].status # "valid"
       THEN /\ Respond("user_refund_request", "INVALID_TICKET", t)
            /\ UNCHANGED <<tickets, payments>>
       ELSE /\ tickets' = [tickets EXCEPT ![t] = refund_row(t)]
            /\ payments' = Append(payments, [customer |-> tickets[t].customer, ticket |-> t,
                                             amount |-> 0 - tickets[t].price,
                                             status |-> "completed"])
            /\ Respond("user_refund_request", "OK", t)

\* NFCCardViewSet.bulk
NFCCardViewSet_bulk(action_type, card_ids) ==
    /\ cards' = [s \in Serials |->
                   IF s \in card_ids /\ action_type = "activate"
                   THEN [cards[s] EXCEPT !.status = "active"]
                   ELSE IF s \in card_ids /\ action_type = "deactivate"
                   THEN [cards[s] EXCEPT !.status = "inactive"]
                   ELSE cards[s]]
    /\ Respond("NFCCardViewSet_bulk", "OK", Null)
    /\ UNCHANGED <<customers, events, tickets, transfers, payments, logs, otps, reg_cache, now>>

\* ------------------------------------------- check-in, step by step
\* A request served by worker p runs its queries one at a time: a model
\* instance is the row as it was read, and save() writes that instance.
\* usher_scan_result: the card, event and ticket queries
scan_read(p, card_id, event_id, result) ==
    /\ procs[p].pc = "idle"
    /\ UNCHANGED <<customers, events, tickets, transfers, payments, cards, logs,
                   otps, reg_cache, now, last>>
    /\ LET call == [Idle EXCEPT !.op = "usher_scan_result", !.card = card_id,
                                !.event = event_id, !.result = result]
       IN IF ~CardExists(card_id) \/ event_id \notin Events
          THEN procs' = [procs EXCEPT ![p] = [call EXCEPT !.pc = "done", !.code = "NOT_FOUND"]]
          ELSE IF cards[card_id].customer = Null
          THEN procs' = [procs EXCEPT ![p] = [call EXCEPT !.pc = "done", !.code = "NO_CUSTOMER"]]
          ELSE LET ticket == scan_ticket(cards[card_id].customer, event_id)
               IN procs' = [procs EXCEPT ![p] =
                     [call EXCEPT !.ticket = ticket,
                                  !.snap = IF ticket = Null THEN NoRow ELSE tickets[ticket],
                                  !.pre = IF ticket = Null THEN NullStr ELSE tickets[ticket].status,
                                  !.pc = IF result = "valid" /\ ticket # Null
                                         THEN "write" ELSE "log"]]

\* the row ticket.save() writes in usher_scan_result: the instance read
\* earlier, with status 'used'
scan_save(snap) == [snap EXCEPT !.status = "used"]

\* usher_scan_result: ticket.save()
scan_write(p) ==
    /\ procs[p].pc = "write"
    /\ procs[p].op = "usher_scan_result"
    /\ tickets' = [tickets EXCEPT ![procs[p].ticket] = scan_save(procs[p].snap)]
    /\ procs' = [procs EXCEPT ![p].pc = "log",
                              ![p].transition = (tickets[procs[p].ticket].status = "valid")]
    /\ UNCHANGED <<customers, events, transfers, payments, cards, logs, otps,
                   reg_cache, now, last>>

\* usher_scan_result: CheckinLog.objects.create and the response
scan_respond(p) ==
    /\ procs[p].pc = "log"
    /\ logs' = Append(logs, scan_log(cards[procs[p].card].customer, procs[p].event,
                                     procs[p].ticket, procs[p].card, procs[p].result,
                                     "usher1", "note"))
    /\ now' = now + 1
    /\ procs' = [procs EXCEPT ![p].pc = "done", ![p].code = "OK", ![p].logged = 1]
    /\ RespondCard("usher_scan_result", procs[p].card, procs[p].event, "OK",
                   procs[p].ticket, procs[p].result, "", "")
    /\ UNCHANGED <<customers, events, tickets, transfers, payments, cards, otps, reg_cache>>

\* checkin_verify: the ticket query and the status test on the instance
verify_read(p, t) ==
    /\ procs[p].pc = "idle"
    /\ UNCHANGED <<customers, events, tickets, transfers, payments, cards, logs,
                   otps, reg_cache, now, last>>
    /\ LET call == [Idle EXCEPT !.op = "checkin_verify"]
       IN IF t \notin TicketIds
          THEN procs' = [procs EXCEPT ![p] = [call EXCEPT !.pc = "done", !.code = "TICKET_NOT_FOUND"]]
          ELSE procs' = [procs EXCEPT ![p] =
                  [call EXCEPT !.ticket = t, !.snap = tickets[t], !.pre = tickets[t].status,
                               !.event = tickets[t].event,
                               !.pc = IF tickets[t].status # "valid" THEN "done" ELSE "write",
                               !.code = IF tickets[t].status # "valid" THEN "INVALID_TICKET" ELSE ""]]

\* the row ticket.save() writes in checkin_verify and checkin_nfc
checkin_save(snap) == [snap EXCEPT !.status = "used", !.check_in_time = now]

\* checkin_verify: ticket.save() and the response
verify_write(p) ==
    /\ procs[p].pc = "write"
    /\ procs[p].op = "checkin_verify"
    /\ tickets' = [tickets EXCEPT ![procs[p].ticket] = checkin_save(procs[p].snap)]
    /\ now' = now + 1
    /\ procs' = [procs EXCEPT ![p].pc = "done", ![p].code = "OK",
                              ![p].transition = (tickets[procs[p].ticket].status = "valid")]
    /\ Respond("checkin_verify", "OK", procs[p].ticket)
    /\ UNCHANGED <<customers, events, transfers, payments, cards, logs, otps, reg_cache>>

\* checkin_nfc: the card query and the ticket query
nfc_read(p, card_serial, event_id) ==
    /\ procs[p].pc = "idle"
    /\ UNCHANGED <<customers, events, tickets, transfers, payments, cards, logs,
                   otps, reg_cache, now, last>>
    /\ LET call == [Idle EXCEPT !.op = "checkin_nfc", !.card = card_serial, !.event = event_id]
       IN IF ~(CardExists(card_serial) /\ cards[card_serial].status = "active")
          THEN procs' = [procs EXCEPT ![p] = [call EXCEPT !.pc = "done", !.code = "CARD_NOT_FOUND"]]
          ELSE LET ticket == nfc_ticket(cards[card_serial].customer, event_id)
               IN IF ticket = Null
                  THEN procs' = [procs EXCEPT ![p] = [call EXCEPT !.pc = "done", !.code = "NO_TICKET"]]
                  ELSE procs' = [procs EXCEPT ![p] =
                          [call EXCEPT !.ticket = ticket, !.snap = tickets[ticket],
                                       !.pre = tickets[ticket].status,
                                       !.card_snap = cards[card_serial].usage_count,
                                       !.pc = "write"]]

\* checkin_nfc: ticket.save()
nfc_write(p) ==
    /\ procs[p].pc = "write"
    /\ procs[p].op = "checkin_nfc"
    /\ tickets' = [tickets EXCEPT ![procs[p].ticket] = checkin_save(procs[p].snap)]
    /\ now' = now + 1
    /\ procs' = [procs EXCEPT ![p].pc = "write_card",
                              ![p].transition = (tickets[procs[p].ticket].status = "valid")]
    /\ UNCHANGED <<customers, events, transfers, payments, cards, logs, otps, reg_cache, last>>

\* checkin_nfc: card.save() and the response
nfc_respond(p) ==
    /\ procs[p].pc = "write_card"
    /\ cards' = [cards EXCEPT ![procs[p].card].last_used = now,
                              ![procs[p].card].usage_count = procs[p].card_snap + 1]
    /\ now' = now + 1
    /\ procs' = [procs EXCEPT ![p].pc = "done", ![p].code = "OK"]
    /\ RespondCard("checkin_nfc", procs[p].card, procs[p].event, "OK", procs[p].ticket, "", "", "")
    /\ UNCHANGED <<customers, events, tickets, transfers, payments, logs, otps, reg_cache>>

\* ------------------------------------------------ booking, step by step
\* ticket_book: the event and category queries, the availability count and
\* the ticket-limit test; request.customer is the row read when the request
\* was authenticated
book_check(p, c, e, category, quantity) ==
    /\ procs[p].pc = "idle"
    /\ Exists(c)
    /\ UNCHANGED <<customers, events, tickets, transfers, payments, cards, logs,
                   otps, reg_cache, now, last>>
    /\ LET call == [Idle EXCEPT !.op = "ticket_book", !.customer = c, !.event = e,
                                !.category = category, !.quantity = quantity]
       IN IF e \notin Events
          THEN procs' = [procs EXCEPT ![p] = [call EXCEPT !.pc = "done", !.code = "NOT_FOUND"]]
          ELSE LET available == IF HasCategory(e, category)
                                THEN tickets_available(e, category)
                                ELSE Event_tickets_available(e)
               IN procs' = [procs EXCEPT ![p] =
                     [call EXCEPT !.available = available,
                                  !.customer_snap = [total_bookings |-> customers[c].total_bookings,
                                                     total_spent |-> customers[c].total_spent],
                                  !.pc = IF available < quantity \/ quantity > events[e].ticket_limit
                                         THEN "done" ELSE "create",
                                  !.code = IF available < quantity THEN "INSUFFICIENT_TICKETS"
                                           ELSE IF quantity > events[e].ticket_limit
                                           THEN "TICKET_LIMIT_EXCEEDED"
                                           ELSE ""]]

\* ticket_book: the payment row, the Ticket rows, and the customer totals
\* saved from the instance of the request
book_create(p) ==
    /\ procs[p].pc = "create"
    /\ procs[p].op = "ticket_book"
    /\ LET c == procs[p].customer
           e == procs[p].event
           quantity == procs[p].quantity
           price == price_per_ticket(e, procs[p].category)
           total_amount == price * quantity
           rows == created_tickets(c, e, procs[p].category, price, << >>, 1, quantity)
       IN /\ tickets' = tickets \o rows
          /\ payments' = Append(payments, [customer |-> c, ticket |-> Null,
                                           amount |-> total_amount, status |-> "completed"])
          /\ customers' = [customers EXCEPT
                             ![c].total_bookings = procs[p].customer_snap.total_bookings + quantity,
                             ![c].total_spent = procs[p].customer_snap.total_spent + total_amount]
          /\ Respond("ticket_book", "CREATED", Len(tickets) + 1)
    /\ procs' = [procs EXCEPT ![p].pc = "done", ![p].code = "CREATED"]
    /\ UNCHANGED <<events, transfers, cards, logs, otps, reg_cache, now>>

\* the number of ticket saves the requests in flight have completed; a
\* request keeps the tickets it saved, each with its place in that order
saves == Cardinality(UNION {procs[q].wrote : q \in Procs})

\* ticket_book: Ticket.objects.create raises after created tickets of the
\* booking were saved (a ticket_number that exists, a database error); the
\* handler catches the exception and answers BOOKING_ERROR, the pending
\* payment row and the saved tickets stay
book_fail(p, created) ==
    /\ procs[p].pc = "create"
    /\ procs[p].op = "ticket_book"
    /\ created < procs[p].quantity
    /\ LET c == procs[p].customer
           e == procs[p].event
           price == price_per_ticket(e, procs[p].category)
           rows == created_tickets(c, e, procs[p].category, price, << >>, 1, procs[p].quantity)
       IN /\ payments' = Append(payments, [customer |-> c, ticket |-> Null,
                                           amount |-> price * procs[p].quantity,
                                           status |-> "pending"])
          /\ tickets' = tickets \o SubSeq(rows, 1, created)
    /\ Respond("ticket_book", "BOOKING_ERROR", Null)
    /\ procs' = [procs EXCEPT ![p].pc = "done", ![p].code = "BOOKING_ERROR"]
    /\ UNCHANGED <<customers, events, transfers, cards, logs, otps, reg_cache, now>>

\* --------------------------------------------- registration, step by step
\* user_complete_registration: the cache tests and the exists() query
complete_check(p, m) ==
    /\ procs[p].pc = "idle"
    /\ UNCHANGED <<customers, events, tickets, transfers, payments, cards, logs, otps, now>>
    /\ LET call == [Idle EXCEPT !.op = "user_complete_registration", !.customer = m]
           code == IF reg_cache[m] = "none" THEN "SESSION_EXPIRED"
                   ELSE IF reg_cache[m] # "verified" THEN "NOT_VERIFIED"
                   ELSE IF Exists(m) THEN "VALIDATION_ERROR"
                   ELSE ""
       IN /\ procs' = [procs EXCEPT ![p] =
                [call EXCEPT !.pc = IF code = "" THEN "create" ELSE "done", !.code = code]]
          /\ reg_cache' = IF code = "VALIDATION_ERROR"
                          THEN [reg_cache EXCEPT ![m] = "none"] ELSE reg_cache
          /\ IF code = "" THEN UNCHANGED last
             ELSE Respond("user_complete_registration", code, Null)

\* a Customer table that takes a second row with the mobile number
Customer_create_any(m) ==
    [customers EXCEPT ![m].status = "active", ![m].rows = @ + 1]

\* Customer.objects.create on a table whose mobile_number column is unique:
\* the INSERT is refused while a row with the mobile number exists
Customer_create(m) ==
    IF customers[m].rows > 0
    THEN customers
    ELSE [customers EXCEPT ![m].status = "active", ![m].rows = @ + 1]

\* user_complete_registration: Customer.objects.create, the link loop, the
\* cache entry deleted and the 201 response; a refused INSERT raises out of
\* the view
complete_create(p) ==
    /\ procs[p].pc = "create"
    /\ procs[p].op = "user_complete_registration"
    /\ UNCHANGED <<events, transfers, payments, cards, logs, otps, now>>
    /\ LET m == procs[p].customer
       IN /\ customers' = Customer_create(m)
          /\ IF customers' = customers
             THEN /\ procs' = [procs EXCEPT ![p].pc = "done", ![p].code = "SERVER_ERROR"]
                  /\ Respond("user_complete_registration", "SERVER_ERROR", Null)
                  /\ UNCHANGED <<tickets, reg_cache>>
             ELSE /\ tickets' = link(m)
                  /\ reg_cache' = [reg_cache EXCEPT ![m] = "none"]
                  /\ procs' = [procs EXCEPT ![p].pc = "done", ![p].code = "CREATED"]
                  /\ Respond("user_complete_registration", "CREATED", Null)

\* ----------------------------------------------- transfer, step by step
\* user_ticket_transfer: the ticket query, the status and configuration
\* tests, and the fee computed from the ticket and event that were read
transfer_read(p, c, t, recipient_mobile, recipient_name) ==
    /\ procs[p].pc = "idle"
    /\ Exists(c)
    /\ UNCHANGED <<customers, events, tickets, transfers, payments, cards, logs,
                   otps, reg_cache, now, last>>
    /\ LET call == [Idle EXCEPT !.op = "user_ticket_transfer", !.customer = c,
                                !.recipient_mobile = recipient_mobile,
                                !.recipient_name = recipient_name]
       IN IF transfer_error(c, t) # ""
          THEN procs' = [procs EXCEPT ![p] =
                  [call EXCEPT !.pc = "done", !.code = transfer_error(c, t)]]
          ELSE procs' = [procs EXCEPT ![p] =
                  [call EXCEPT !.pc = "pay", !.ticket = t, !.snap = tickets[t],
                               !.event = tickets[t].event,
                               !.transfer_fee = transfer_fee(t)]]

\* a fee payment that is recorded as not yet settled
fee_payment_pending(p) ==
    IF procs[p].transfer_fee > 0
    THEN Append(payments, [customer |-> procs[p].customer, ticket |-> procs[p].ticket,
                           amount |-> procs[p].transfer_fee, status |-> "pending"])
    ELSE payments

\* the PaymentTransaction rows after the fee of the request is processed
fee_payment(p) ==
    IF procs[p].transfer_fee > 0
    THEN Append(payments, [customer |-> procs[p].customer, ticket |-> procs[p].ticket,
                           amount |-> procs[p].transfer_fee, status |-> "completed"])
    ELSE payments

\* user_ticket_transfer: the fee payment, then the recipient query
transfer_pay(p) ==
    /\ procs[p].pc = "pay"
    /\ procs[p].op = "user_ticket_transfer"
    /\ payments' = fee_payment(p)
    /\ procs' = [procs EXCEPT ![p].pc = "save",
                              ![p].recipient = IF Active(procs[p].recipient_mobile)
                                               THEN procs[p].recipient_mobile ELSE Null]
    /\ UNCHANGED <<customers, events, tickets, transfers, cards, logs,
                   otps, reg_cache, now, last>>

\* the instance user_ticket_transfer saves: the row it read, with the
\* holder or the pending assignment set
transfer_instance(ticket, recipient, recipient_mobile, recipient_name) ==
    LET original_buyer == IF ticket.buyer # Null THEN ticket.buyer ELSE ticket.customer
        buyer == IF ticket.buyer = Null THEN original_buyer ELSE ticket.buyer
    IN IF recipient # Null
       THEN [ticket EXCEPT !.customer = recipient,
                           !.buyer = buyer,
                           !.assigned_name = NullStr,
                           !.assigned_mobile = Null,
                           !.assigned_email = NullStr]
       ELSE [ticket EXCEPT !.assigned_name = recipient_name,
                           !.assigned_mobile = recipient_mobile,
                           !.assigned_email = NullStr,
                           !.buyer = buyer]

\* user_ticket_transfer: ticket.save() writes every column of the instance
transfer_save(p) ==
    /\ procs[p].pc = "save"
    /\ procs[p].op = "user_ticket_transfer"
    /\ tickets' = [tickets EXCEPT ![procs[p].ticket] =
                      transfer_instance(procs[p].snap, procs[p].recipient,
                                        procs[p].recipient_mobile, procs[p].recipient_name)]
    /\ procs' = [procs EXCEPT ![p].pc = "record",
                              ![p].wrote = {<<procs[p].ticket, saves + 1>>}]
    /\ UNCHANGED <<customers, events, transfers, payments, cards, logs,
                   otps, reg_cache, now, last>>

\* user_ticket_transfer: the TicketTransfer row, and the response
transfer_record(p) ==
    /\ procs[p].pc = "record"
    /\ procs[p].op = "user_ticket_transfer"
    /\ transfers' = IF procs[p].recipient # Null
                    THEN Append(transfers, [ticket |-> procs[p].ticket,
                                            from_customer |-> procs[p].snap.customer,
                                            to_customer |-> procs[p].recipient,
                                            status |-> "completed"])
                    ELSE transfers
    /\ Respond("user_ticket_transfer", "OK", procs[p].ticket)
    /\ procs' = [procs EXCEPT ![p].pc = "done", ![p].code = "OK"]
    /\ UNCHANGED <<customers, events, tickets, payments, cards, logs, otps, reg_cache, now>>

\* --------------------------------------------------- link, step by step
\* user_complete_registration: the cache tests, the Customer row, and the
\* query for the tickets assigned to the mobile number
registration_read(p, m) ==
    /\ procs[p].pc = "idle"
    /\ UNCHANGED <<events, tickets, transfers, payments, cards, logs, otps, now>>
    /\ LET call == [Idle EXCEPT !.op = "user_complete_registration", !.customer = m]
       IN IF reg_cache[m] = "none"
          THEN /\ procs' = [procs EXCEPT ![p] = [call EXCEPT !.pc = "done", !.code = "SESSION_EXPIRED"]]
               /\ Respond("user_complete_registration", "SESSION_EXPIRED", Null)
               /\ UNCHANGED <<customers, reg_cache>>
          ELSE IF reg_cache[m] # "verified"
          THEN /\ procs' = [procs EXCEPT ![p] = [call EXCEPT !.pc = "done", !.code = "NOT_VERIFIED"]]
               /\ Respond("user_complete_registration", "NOT_VERIFIED", Null)
               /\ UNCHANGED <<customers, reg_cache>>
          ELSE IF Exists(m)
          THEN /\ procs' = [procs EXCEPT ![p] = [call EXCEPT !.pc = "done", !.code = "VALIDATION_ERROR"]]
               /\ reg_cache' = [reg_cache EXCEPT ![m] = "none"]
               /\ Respond("user_complete_registration", "VALIDATION_ERROR", Null)
               /\ UNCHANGED customers
          ELSE /\ customers' = [customers EXCEPT ![m].status = "active", ![m].rows = @ + 1]
               /\ procs' = [procs EXCEPT ![p] =
                     [call EXCEPT !.pc = "link", !.queue = assigned_tickets(m), !.table = tickets]]
               /\ UNCHANGED <<reg_cache, last>>

\* a save of the linked ticket that writes the holder column only
link_update_holder_only(row, instance) == [row EXCEPT !.customer = instance.customer]

\* ticket.save(update_fields=[customer, buyer, assigned_name, assigned_mobile,
\* assigned_email]): the five columns of the row are written from the
\* instance in one UPDATE, the other columns stay as they are in the table
link_update(row, instance) ==
    [row EXCEPT !.customer = instance.customer,
                !.buyer = instance.buyer,
                !.assigned_name = instance.assigned_name,
                !.assigned_mobile = instance.assigned_mobile,
                !.assigned_email = instance.assigned_email]

\* the linking loop: one ticket of the query result is changed and saved
link_save(p) ==
    /\ procs[p].pc = "link"
    /\ procs[p].queue # {}
    /\ LET t == CHOOSE u \in procs[p].queue : \A v \in procs[p].queue : u <= v
       IN /\ tickets' = [tickets EXCEPT ![t] =
                            link_update(tickets[t], link_row(procs[p].table[t], procs[p].customer))]
          /\ procs' = [procs EXCEPT ![p].queue = @ \ {t},
                                    ![p].wrote = @ \cup {<<t, saves + 1>>}]
    /\ UNCHANGED <<customers, events, transfers, payments, cards, logs,
                   otps, reg_cache, now, last>>

\* user_complete_registration: after the loop the cache entry is deleted
\* and the response sent
registration_respond(p) ==
    /\ procs[p].pc = "link"
    /\ procs[p].op = "user_complete_registration"
    /\ procs[p].queue = {}
    /\ reg_cache' = [reg_cache EXCEPT ![procs[p].customer] = "none"]
    /\ Respond("user_complete_registration", "CREATED", Null)
    /\ procs' = [procs EXCEPT ![p].pc = "done", ![p].code = "CREATED"]
    /\ UNCHANGED <<customers, events, tickets, transfers, payments, cards, logs, otps, now>>

\* ----------------------------------------------------------- requests
\* the mobile numbers that register, and those that log in
RegMobiles == {NCustomers}
LoginMobiles == {2}

\* the recipients of a transfer or gift: a customer on file, and a mobile
\* number that registers later
Recipients == LoginMobiles \cup RegMobiles

\* ---- ownership requests
Book ==
    \E c \in {1, 2}, quantity \in 1 .. MaxQuantity, req_details \in RequestDetails :
        /\ Len(tickets) + quantity <= MaxTickets
        /\ Len(payments) < MaxPayments
        /\ ticket_book(c, 1, "VIP", quantity, req_details)
        /\ UNCHANGED procs

Transfer ==
    \E c \in Mobiles, t \in TicketIds, m \in Recipients :
        user_ticket_transfer(c, t, m, "Bob") /\ UNCHANGED procs

Gift ==
    \E c \in Mobiles, t \in TicketIds, m \in Recipients :
        user_ticket_gift(c, t, m) /\ UNCHANGED procs

AdminTransfer ==
    \E t \in TicketIds, m \in Recipients :
        TicketViewSet_transfer(Null, t, m) /\ UNCHANGED procs

Register == \E m \in RegMobiles : user_register(m, 1, TRUE) /\ UNCHANGED procs

VerifyOtp == \E m \in RegMobiles : user_verify_otp(m, 1) /\ UNCHANGED procs

CompleteRegistration ==
    \E m \in RegMobiles : user_complete_registration(m) /\ UNCHANGED procs

Login == \E m \in LoginMobiles : user_login(m, TRUE, 1, TRUE) /\ UNCHANGED procs

VerifyLoginOtp == \E m \in LoginMobiles : user_verify_login_otp(m, 1) /\ UNCHANGED procs

CustomerStatus ==
    \E m \in LoginMobiles, s \in {"active", "inactive"} :
        CustomerViewSet_status(m, s) /\ UNCHANGED procs

\* ---- check-in requests
ScanBook ==
    \E quantity \in 1 .. MaxQuantity :
        /\ Len(tickets) + quantity <= MaxTickets
        /\ Len(payments) < MaxPayments
        /\ ticket_book(1, 1, "VIP", quantity, << >>)
        /\ UNCHANGED procs

ScanGift == \E t \in TicketIds : user_ticket_gift(1, t, 2) /\ UNCHANGED procs

ResolveCredential ==
    \E s \in SerialIds, e \in EventIds :
        usher_scan_attendee_by_card(s, e) /\ UNCHANGED procs

CommitScan ==
    \E s \in SerialIds, e \in EventIds, r \in ScanResults, o \in Operators, n \in Notes :
        usher_scan_result(s, e, r, o, n) /\ UNCHANGED procs

CheckinVerify == \E t \in TicketRefs : checkin_verify(t) /\ UNCHANGED procs

CheckinByCard ==
    \E s \in SerialIds, e \in Events \cup {Null} : checkin_nfc(s, e) /\ UNCHANGED procs

AdminStatus ==
    \E t \in TicketIds, s \in TicketStatus : TicketViewSet_status(t, s) /\ UNCHANGED procs

AdminCheckin ==
    \E t \in TicketRefs, o \in Operators, n \in Notes :
        TicketViewSet_checkin(t, o, n) /\ UNCHANGED procs

ModelRefund == \E t \in TicketIds : Ticket_refund(t) /\ UNCHANGED procs

RefundRequest ==
    \E c \in Mobiles, t \in TicketIds : user_refund_request(c, t) /\ UNCHANGED procs

CardBulk ==
    \E a \in {"activate", "deactivate"}, s \in Serials :
        NFCCardViewSet_bulk(a, {s}) /\ UNCHANGED procs

\* ---- check-in requests served concurrently
ScanRead ==
    \E p \in Procs, s \in Serials, r \in {"valid", "already_scanned"} : scan_read(p, s, 1, r)

ScanWrite == \E p \in Procs : scan_write(p)

ScanRespond == \E p \in Procs : scan_respond(p)

VerifyRead == \E p \in Procs, t \in TicketRefs : verify_read(p, t)

VerifyWrite == \E p \in Procs : verify_write(p)

NfcRead == \E p \in Procs, s \in Serials : nfc_read(p, s, 1)

NfcWrite == \E p \in Procs : nfc_write(p)

NfcRespond == \E p \in Procs : nfc_respond(p)

\* the store with events that charge no transfer fee
InitFree == Init /\ \A e \in Events : events[e].transfer_fee_value = 0

\* ------------------------------------------------------- specifications
\* the ownership requests, served one at a time
SpecOwn ==
    InitFree /\
    [][\/ Book
       \/ Transfer
       \/ Gift
       \/ AdminTransfer
       \/ Register
       \/ VerifyOtp
       \/ CompleteRegistration
       \/ Login
       \/ VerifyLoginOtp
       \/ CustomerStatus]_vars

\* the check-in and status requests, served one at a time
SpecScan ==
    Init /\
    [][\/ ScanBook
       \/ ScanGift
       \/ ResolveCredential
       \/ CommitScan
       \/ CheckinVerify
       \/ CheckinByCard
       \/ AdminStatus
       \/ AdminCheckin
       \/ ModelRefund
       \/ RefundRequest
       \/ CardBulk]_vars

\* check-in requests served by concurrent workers, one query at a time
SpecRace ==
    Init /\
    [][\/ ScanBook
       \/ ScanRead
       \/ ScanWrite
       \/ ScanRespond
       \/ VerifyRead
       \/ VerifyWrite
       \/ NfcRead
       \/ NfcWrite
       \/ NfcRespond]_vars

\* the usher's look-ups, with the requests that change what a look-up
\* reads; a scan is confirmed as valid
CommitValid ==
    \E s \in Serials, o \in Operators, n \in Notes :
        usher_scan_result(s, 1, "valid", o, n) /\ UNCHANGED procs

SpecResolve ==
    InitFree /\
    [][\/ ScanBook
       \/ ScanGift
       \/ ResolveCredential
       \/ CommitValid
       \/ AdminStatus
       \/ CardBulk]_vars

\* the look-ups of a customer with several tickets: bookings of up to
\* MaxIssued tickets, gifts, and status changes
IssueBook ==
    \E c \in {1, 2}, quantity \in 1 .. MaxQuantity :
        /\ Len(tickets) + quantity <= MaxIssued
        /\ Len(payments) < MaxPayments
        /\ ticket_book(c, 1, "VIP", quantity, << >>)
        /\ UNCHANGED procs

SpecCandidate ==
    InitFree /\
    [][\/ IssueBook
       \/ ScanGift
       \/ AdminStatus
       \/ ResolveCredential]_vars

\* the booking requests: any customer, event, category label and quantity,
\* with or without per-ticket details, and refunds that free capacity
BookAny ==
    \E c \in {1, 2}, e \in EventIds, category \in {"VIP", "GOLD", "GA"},
       quantity \in 1 .. MaxQuantity + 1, req_details \in RequestDetails :
        /\ ticket_book(c, e, category, quantity, req_details)
        /\ Len(tickets') <= MaxIssued
        /\ Len(payments') <= MaxPayments + 1
        /\ UNCHANGED procs

SpecBook ==
    Init /\
    [][\/ BookAny
       \/ RefundRequest]_vars

\* bookings served by concurrent workers, one query at a time
BookCheck ==
    \E p \in Procs, c \in {1, 2}, category \in {"VIP", "GOLD"}, quantity \in 1 .. MaxQuantity :
        book_check(p, c, 1, category, quantity)

BookCreate ==
    \E p \in Procs :
        /\ book_create(p)
        /\ Len(tickets') <= MaxIssued
        /\ Len(payments') <= MaxPayments

SpecBookRace ==
    Init /\
    [][\/ BookCheck
       \/ BookCreate]_vars

\* the transfer requests of any caller for any ticket, valid or used, for
\* events with and without transfers and fees
RecipientNames == {"Bob", ""}

TransferAny ==
    \E c \in Mobiles, t \in TicketRefs, m \in Recipients, name \in RecipientNames :
        user_ticket_transfer(c, t, m, name) /\ UNCHANGED procs

AdminUse == \E t \in TicketIds : TicketViewSet_status(t, "used") /\ UNCHANGED procs

SpecTransfer ==
    Init /\
    [][\/ Book
       \/ TransferAny
       \/ AdminUse
       \/ CustomerStatus]_vars

\* the transfer requests served step by step by concurrent workers, for
\* events with and without a fee
SpecPay ==
    Init /\
    [][\/ Book
       \/ AdminUse
       \/ \E p \in Procs, c \in {1, 2}, t \in TicketIds, m \in Recipients, name \in RecipientNames :
             transfer_read(p, c, t, m, name)
       \/ \E p \in Procs : transfer_pay(p)
       \/ \E p \in Procs : transfer_save(p)
       \/ \E p \in Procs : transfer_record(p)]_vars

\* the gift and transfer requests, for events with and without transfers,
\* valid and used tickets, and recipients that are active, deactivated or
\* not registered
SpecGift ==
    Init /\
    [][\/ Book
       \/ Transfer
       \/ Gift
       \/ AdminUse
       \/ CustomerStatus]_vars

\* a registration and a transfer served statement by statement by
\* concurrent workers, after bookings and pending assignments
SpecLinkRace ==
    InitFree /\
    [][\/ Book
       \/ (\A p \in Procs : procs[p].pc = "idle") /\ Transfer
       \/ Register
       \/ VerifyOtp
       \/ \E p \in Procs, c \in {1, 2}, t \in TicketIds, m \in Recipients, name \in RecipientNames :
             transfer_read(p, c, t, m, name)
       \/ \E p \in Procs : transfer_pay(p)
       \/ \E p \in Procs : transfer_save(p)
       \/ \E p \in Procs : transfer_record(p)
       \/ \E p \in Procs, m \in RegMobiles : registration_read(p, m)
       \/ \E p \in Procs : link_save(p)
       \/ \E p \in Procs : registration_respond(p)]_vars

\* the ownership requests of the customers, and their ticket queries
SpecView ==
    InitFree /\
    [][\/ Book
       \/ Transfer
       \/ Gift
       \/ Register
       \/ VerifyOtp
       \/ CompleteRegistration
       \/ CustomerStatus
       \/ \E c \in Mobiles, t \in TicketRefs : user_ticket_detail(c, t) /\ UNCHANGED procs
       \/ \E c \in Mobiles : user_tickets_list(c) /\ UNCHANGED procs]_vars

\* the OTP service called for two phone numbers, two purposes and two
\* codes, while time passes
SpecOtp ==
    InitFree /\
    [][\/ \E phone_number \in {1, 2}, purpose \in {"login", "forgot_password"}, code \in OtpCodes :
             create_and_send_otp_call(phone_number, purpose, code) /\ UNCHANGED procs
       \/ \E phone_number \in {1, 2}, purpose \in {"login", "forgot_password"}, code \in OtpCodes :
             verify_otp_call(phone_number, code, purpose) /\ UNCHANGED procs
       \/ /\ now < MaxNow
          /\ now' = now + 1
          /\ UNCHANGED <<customers, events, tickets, transfers, payments, cards, logs,
                         otps, reg_cache, last, procs>>]_vars

\* verify_otp served statement by statement by concurrent workers, for the
\* OTP rows created before the first of them starts
SpecOtpRace ==
    InitFree /\
    [][\/ \E phone_number \in {1, 2}, purpose \in {"login", "forgot_password"}, code \in OtpCodes :
             /\ \A p \in Procs : procs[p].pc = "idle"
             /\ create_and_send_otp_call(phone_number, purpose, code)
             /\ UNCHANGED procs
       \/ \E p \in Procs, phone_number \in {1, 2}, purpose \in {"login", "forgot_password"},
             code \in OtpCodes :
             otp_read(p, phone_number, code, purpose)
       \/ \E p \in Procs : otp_mark(p)]_vars

\* the password-reset requests for the mobile number of a customer and for
\* one nobody has registered, while time passes
SpecReset ==
    InitFree /\
    [][\/ \E m \in Recipients, code \in OtpCodes, sms_ok \in BOOLEAN :
            user_forgot_password_request_otp(m, code, sms_ok) /\ UNCHANGED procs
       \/ \E m \in Recipients, otp_code \in OtpCodes :
            user_verify_password_reset_otp(m, otp_code) /\ UNCHANGED procs
       \/ \E m \in Recipients, otp_code \in OtpCodes, new_password \in {1, 2} :
            user_reset_password(m, otp_code, new_password) /\ UNCHANGED procs
       \/ /\ now < MaxNow
          /\ now' = now + 1
          /\ UNCHANGED <<customers, events, tickets, transfers, payments, cards, logs,
                         otps, reg_cache, last, procs>>]_vars

\* bookings served statement by statement, with ticket creation that can
\* fail part of the way
SpecBookFail ==
    Init /\
    [][\/ BookCheck
       \/ BookCreate
       \/ \E p \in Procs, created \in 0 .. MaxQuantity :
            book_fail(p, created)
            /\ Len(tickets') <= MaxIssued
            /\ Len(payments') <= MaxPayments]_vars

\* every request that writes a ticket row after its issuance, served one at
\* a time
SpecFrame ==
    InitFree /\
    [][\/ Book
       \/ Transfer
       \/ Gift
       \/ AdminTransfer
       \/ Register
       \/ VerifyOtp
       \/ CompleteRegistration
       \/ CommitScan
       \/ CheckinVerify
       \/ AdminStatus
       \/ AdminCheckin
       \/ ModelRefund
       \/ RefundRequest]_vars

\* registrations of one mobile number served by concurrent workers, the
\* completion one statement at a time
SpecRegisterRace ==
    Init /\
    [][\/ Register
       \/ VerifyOtp
       \/ \E p \in Procs, m \in RegMobiles : complete_check(p, m)
       \/ \E p \in Procs : complete_create(p)]_vars

\* scans and transfers of the card holder's tickets served by concurrent
\* workers, one query at a time
SpecScanTransfer ==
    InitFree /\
    [][\/ ScanBook
       \/ ScanRead
       \/ ScanWrite
       \/ ScanRespond
       \/ \E p \in Procs, t \in TicketIds, m \in Recipients, name \in RecipientNames :
             transfer_read(p, 1, t, m, name)
       \/ \E p \in Procs : transfer_pay(p)
       \/ \E p \in Procs : transfer_save(p)
       \/ \E p \in Procs : transfer_record(p)]_vars

\* the registration requests of a new and of a registered mobile number,
\* served one at a time while OTPs and cache entries expire
SpecSession ==
    Init /\
    [][\/ \E m \in RegMobiles \cup LoginMobiles, code \in OtpCodes, sms_ok \in BOOLEAN :
             /\ Cardinality(otps) < MaxOtps
             /\ user_register(m, code, sms_ok)
             /\ UNCHANGED procs
       \/ \E m \in RegMobiles \cup LoginMobiles, otp_code \in OtpCodes :
             user_verify_otp(m, otp_code) /\ UNCHANGED procs
       \/ \E m \in RegMobiles \cup LoginMobiles :
             user_complete_registration(m) /\ UNCHANGED procs
       \/ \E m \in RegMobiles : cache_expires(m) /\ UNCHANGED procs
       \/ /\ now < MaxNow
          /\ now' = now + 1
          /\ UNCHANGED <<customers, events, tickets, transfers, payments, cards, logs,
                         otps, reg_cache, last, procs>>]_vars

\* ----------------------------------------------------------- properties
\* C1: a ticket's buyer is the customer who booked it, and no transfer,
\* gift, link or admin transfer changes it: in every step each existing
\* ticket keeps its buyer, and each ticket the step creates has as buyer
\* the customer of the payment ticket_book records for the booking.
BuyerImmutable ==
    [][/\ Len(tickets') >= Len(tickets)
       /\ \A t \in TicketIds : tickets'[t].buyer = tickets[t].buyer
       /\ \A t \in (Len(tickets) + 1) .. Len(tickets') :
             /\ Len(payments') = Len(payments) + 1
             /\ tickets'[t].buyer = payments'[Len(payments')].customer
             /\ tickets'[t].buyer # Null]_vars

\* C1 witness: a ticket booked by customer 1 was assigned to a mobile
\* number that then registered, and the registration has linked it: it
\* is held by the new customer and its buyer is still customer 1.
BuyerKeptAcrossLink ==
    /\ last.op = "user_complete_registration"
    /\ last.code = "CREATED"
    /\ \E t \in TicketIds :
          /\ tickets[t].buyer = 1
          /\ tickets[t].customer \in RegMobiles
          /\ tickets[t].assigned_mobile = Null

\* C2: every ticket has either no pending-assignment field set, or a
\* pending mobile set while its holder is still the holder that made the
\* assignment (the buyer, for a ticket just issued); no step changes the
\* holder of a ticket and leaves a pending mobile set on it.
PendingAssignmentExclusive ==
    [][\A t \in 1 .. Len(tickets') :
          LET row == tickets'[t]
          IN /\ row.assigned_mobile = Null =>
                   row.assigned_name = NullStr /\ row.assigned_email = NullStr
             /\ row.assigned_mobile # Null =>
                   IF t \in TicketIds THEN row.customer = tickets[t].customer
                   ELSE row.customer = row.buyer]_vars

\* C3: a ticket's status changes only from valid, and only to used,
\* refunded or banned: no step changes the status of a ticket that is
\* used, refunded or banned.
StatusMonotonic ==
    [][\A t \in TicketIds :
          tickets'[t].status # tickets[t].status =>
              /\ tickets[t].status = "valid"
              /\ tickets'[t].status \in {"used", "refunded", "banned"}]_vars

\* C4: when two concurrent commits (usher_scan_result with result valid,
\* or checkin_verify) have both read the same ticket as valid, exactly
\* one of them makes the valid -> used transition, one observes valid and
\* the other already_scanned, and each has appended one scan-log row.
CommitScanExactlyOnce ==
    \A p \in Procs, q \in Procs :
        LET commit(w) ==
                /\ procs[w].pc = "done"
                /\ procs[w].pre = "valid"
                /\ \/ procs[w].op = "usher_scan_result" /\ procs[w].result = "valid"
                   \/ procs[w].op = "checkin_verify"
            observed(w) ==
                IF procs[w].code # "OK" THEN "error"
                ELSE IF procs[w].op = "usher_scan_result" THEN procs[w].result
                ELSE "valid"
        IN (p # q /\ commit(p) /\ commit(q) /\ procs[p].ticket = procs[q].ticket) =>
              /\ procs[p].transition # procs[q].transition
              /\ {observed(p), observed(q)} = {"valid", "already_scanned"}
              /\ procs[p].logged = 1
              /\ procs[q].logged = 1

\* C5: every usher_scan_result call appends exactly one CheckinLog row,
\* whatever its outcome, and the row records the request's event and
\* card, the card's customer, the ticket (possibly null), the mapped
\* classification, the operator and the notes.
CommitScanLogsOneRow ==
    [][last'.op = "usher_scan_result" =>
          /\ Len(logs') = Len(logs) + 1
          /\ LET row == logs'[Len(logs')]
             IN /\ row.event = last'.event
                /\ row.nfc_card = last'.card
                /\ row.ticket = last'.ticket
                /\ row.customer = IF CardExists(last'.card)
                                  THEN cards[last'.card].customer ELSE Null
                /\ row.scan_result = scan_result_map(last'.result)
                /\ row.operator \in Operators
                /\ row.notes \in Notes]_vars

\* C6: a check-in request that is answered with an error has appended a
\* scan-log row with outcome failed or not_found.
FailedCheckinLogged ==
    [][(/\ last'.op \in {"usher_scan_result", "checkin_verify", "checkin_nfc",
                         "TicketViewSet_checkin"}
        /\ last'.code # "OK") =>
          /\ Len(logs') = Len(logs) + 1
          /\ logs'[Len(logs')].scan_result \in {"failed", "not_found"}]_vars

\* C7: a ticket with status used has a check-in time; usher_scan_result
\* with result valid changes the status of a ticket only when that
\* status is valid, and then the ticket is used and stamped.
CommitValidStampsCheckin ==
    [][/\ \A t \in 1 .. Len(tickets') :
             tickets'[t].status = "used" => tickets'[t].check_in_time # Null
       /\ (last'.op = "usher_scan_result" /\ last'.result = "valid") =>
             /\ \A t \in TicketIds :
                   tickets'[t].status # tickets[t].status => tickets[t].status = "valid"
             /\ (last'.ticket \in TicketIds /\ tickets[last'.ticket].status = "valid") =>
                   /\ tickets'[last'.ticket].status = "used"
                   /\ tickets'[last'.ticket].check_in_time # Null]_vars

\* C8: once every ticket a card's customer holds for the event is used,
\* scanning the card again for that event is classified already_scanned
\* and leaves the tickets as they are.
SecondScanAlreadyScanned ==
    [][LET s == last'.card
           e == last'.event
           held == IF s \in Serials
                   THEN {t \in TicketIds : /\ tickets[t].customer = cards[s].customer
                                           /\ tickets[t].event = e}
                   ELSE {}
           scanned == /\ s \in Serials
                      /\ cards[s].status = "active"
                      /\ held # {}
                      /\ \A t \in held : tickets[t].status = "used"
       IN scanned =>
             /\ last'.op = "checkin_nfc" =>
                   last'.result = "already_scanned" /\ tickets' = tickets
             /\ last'.op = "usher_scan_attendee_by_card" =>
                   last'.scan_status = "already_scanned"
             /\ last'.op = "usher_scan_result" => tickets' = tickets]_vars

\* C9: of concurrent checkin_nfc calls that act on the same ticket at
\* most one makes its valid -> used transition, and every checkin_nfc
\* call that has returned has appended a scan-log row.
CheckinByCardOnceAndLogged ==
    /\ \A p \in Procs, q \in Procs :
          (/\ p # q
           /\ procs[p].op = "checkin_nfc" /\ procs[q].op = "checkin_nfc"
           /\ procs[p].ticket # Null /\ procs[p].ticket = procs[q].ticket) =>
              ~(procs[p].transition /\ procs[q].transition)
    /\ \A p \in Procs :
          (procs[p].op = "checkin_nfc" /\ procs[p].pc = "done") => procs[p].logged = 1

\* C10: usher_scan_attendee_by_card is read-only: a step that answers
\* a look-up leaves the tickets, cards, customers and scan logs as they
\* were.
ResolveReadOnly ==
    [][last'.op = "usher_scan_attendee_by_card" =>
          /\ tickets' = tickets
          /\ cards' = cards
          /\ customers' = customers
          /\ logs' = logs]_vars

\* C10 witness: a look-up resolved a card to a valid ticket of the event,
\* with scans already logged.
ResolvedValidTicket ==
    /\ last.op = "usher_scan_attendee_by_card"
    /\ last.code = "OK"
    /\ last.ticket_status = "valid"
    /\ last.scan_status = "not_scanned"
    /\ last.ticket \in TicketIds
    /\ Len(logs) > 0

\* C11: a look-up that resolves the card to a customer classifies the
\* candidate ticket of the event: not_found when there is no candidate,
\* already_scanned when the candidate is used, valid when it is valid, and
\* invalid for any other status.  The classification of a response is
\* already_scanned when its scan_status says so, and its ticket_status
\* otherwise.
ResolveClassifies ==
    (last.op = "usher_scan_attendee_by_card" /\ last.code = "OK") =>
        LET customer == cards[last.card].customer
            candidate == IF last.event \in Events
                         THEN candidate_ticket(customer, last.event)
                         ELSE Null
            classification == IF last.scan_status = "already_scanned"
                              THEN "already_scanned"
                              ELSE last.ticket_status
        IN classification =
              (IF candidate = Null THEN "not_found"
               ELSE IF tickets[candidate].status = "used" THEN "already_scanned"
               ELSE IF tickets[candidate].status = "valid" THEN "valid"
               ELSE "invalid")


InactiveCardNeverAdmits ==
    [][(/\ last'.op \in {"usher_scan_attendee_by_card", "usher_scan_result", "checkin_nfc"}
        /\ last'.card \in Serials
        /\ cards[last'.card].status # "active")
       => /\ ~(last'.code = "OK" /\ last'.ticket_status = "valid")
          /\ \A t \in TicketIds :
                ~(tickets[t].status = "valid" /\ tickets'[t].status = "used")]_vars


\* C14: a booking creates tickets only if the requested quantity is at
\* most the remaining capacity of the category (of the event, for a label
\* without a category row) and at most the event's ticket_limit; and no
\* category ever has more valid or used tickets than its total_tickets.
BookingWithinCapacity ==
    [][/\ (last'.op = "ticket_book" /\ Len(tickets') > Len(tickets)) =>
             LET quantity == Len(tickets') - Len(tickets)
                 e == tickets'[Len(tickets')].event
                 name == tickets'[Len(tickets')].category
                 sold == Cardinality({t \in TicketIds :
                            /\ tickets[t].event = e
                            /\ HasCategory(e, name) => tickets[t].category = name
                            /\ tickets[t].status \in {"valid", "used"}})
                 remaining == IF HasCategory(e, name)
                              THEN TicketCategory[e][name].total_tickets - sold
                              ELSE events[e].total_tickets - sold
             IN /\ quantity <= remaining
                /\ quantity <= events[e].ticket_limit
       /\ \A e \in Events : \A name \in DOMAIN TicketCategory[e] :
             Cardinality({t \in 1 .. Len(tickets') :
                            /\ tickets'[t].event = e
                            /\ tickets'[t].category = name
                            /\ tickets'[t].status \in {"valid", "used"}})
                <= TicketCategory[e][name].total_tickets]_vars

\* a booking that succeeded on capacity a refund had freed
BookedFreedCapacity ==
    /\ last.op = "ticket_book"
    /\ last.code = "CREATED"
    /\ \E t \in TicketIds : tickets[t].category = "GOLD" /\ tickets[t].status = "refunded"
    /\ sold_tickets(1, "GOLD") = TicketCategory[1]["GOLD"].total_tickets

\* C15: with r tickets remaining in a category and r within the ticket
\* limit, a booking of r + 1 tickets fails with INSUFFICIENT_TICKETS and
\* creates no ticket, and a booking of r tickets succeeds, after which the
\* category's availability reads 0.
BookingBoundary ==
    [][\A c \in {1, 2}, name \in {"VIP", "GOLD"} :
          LET r == TicketCategory[1][name].total_tickets
                   - Cardinality({t \in TicketIds : /\ tickets[t].event = 1
                                                    /\ tickets[t].category = name
                                                    /\ tickets[t].status \in {"valid", "used"}})
          IN (r >= 1 /\ r <= events[1].ticket_limit) =>
                /\ ticket_book(c, 1, name, r + 1, << >>) =>
                      (last'.code = "INSUFFICIENT_TICKETS" /\ tickets' = tickets)
                /\ ticket_book(c, 1, name, r, << >>) =>
                      /\ last'.code = "CREATED"
                      /\ Len(tickets') = Len(tickets) + r
                      /\ tickets_available(1, name)' = 0]_vars

\* a booking of the two remaining VIP tickets went through
BookedExactlyRemaining ==
    /\ last.op = "ticket_book"
    /\ last.code = "CREATED"
    /\ last.ticket = 1
    /\ Len(tickets) = 2
    /\ \A t \in TicketIds : tickets[t].category = "VIP" /\ tickets[t].status = "valid"
    /\ tickets_available(1, "VIP") = 0

\* C17: a booking whose first ticket carries an assignment with is_owner
\* false creates that ticket with the assigned customer as holder and no
\* pending assignment when a customer has the assigned mobile, and with
\* the buyer as holder and the supplied contact pending otherwise; the
\* buyer is the purchaser.
IssueAssignsHolder ==
    [][\A c \in {1, 2}, quantity \in 1 .. MaxQuantity, d \in RequestDetails :
          (d # << >> /\ ~d[1].is_owner /\ last'.code = "CREATED"
           /\ ticket_book(c, 1, "VIP", quantity, d)) =>
              LET row == tickets'[Len(tickets) + 1]
              IN /\ row.buyer = c
                 /\ IF Exists(d[1].mobile)
                    THEN row.customer = d[1].mobile /\ row.assigned_mobile = Null
                    ELSE /\ row.customer = c
                         /\ row.assigned_mobile = d[1].mobile
                         /\ row.assigned_name = d[1].name]_vars


\* C16: two bookings for the last remaining ticket of a category, in any
\* interleaving of their availability checks and ticket creations: at most
\* one of them creates a ticket, and no category has more valid or used
\* tickets than its total_tickets.
BookingRaceSafe ==
    /\ \A e \in Events : \A name \in DOMAIN TicketCategory[e] :
          sold_tickets(e, name) <= TicketCategory[e][name].total_tickets
    /\ \A p, q \in Procs :
          (/\ p # q
           /\ procs[p].op = "ticket_book" /\ procs[q].op = "ticket_book"
           /\ procs[p].event = procs[q].event
           /\ procs[p].category = procs[q].category
           /\ procs[p].quantity = 1 /\ procs[q].quantity = 1
           /\ procs[p].available = 1 /\ procs[q].available = 1)
          => ~(procs[p].code = "CREATED" /\ procs[q].code = "CREATED")


\* C18: a transfer request for a ticket that is not valid, that the caller
\* does not hold, or whose event has transfers disabled is rejected: the
\* response is an error, no ticket row changes (holder, buyer, pending
\* assignment, status), and no TicketTransfer and no payment row is added.
TransferRejectedUntouched ==
    [][\A c \in Mobiles, t \in TicketIds, m \in Recipients, name \in RecipientNames :
          (/\ \/ tickets[t].status # "valid"
              \/ tickets[t].customer # c
              \/ ~events[tickets[t].event].ticket_transfer_enabled
           /\ user_ticket_transfer(c, t, m, name))
          => /\ last'.code \in {"NOT_FOUND", "INVALID_TICKET", "TRANSFER_DISABLED"}
             /\ tickets' = tickets
             /\ transfers' = transfers
             /\ payments' = payments]_vars

\* the holder's transfer of a used ticket was rejected
RejectedUsedTransfer ==
    /\ last.op = "user_ticket_transfer"
    /\ last.code = "INVALID_TICKET"
    /\ last.ticket \in TicketIds
    /\ tickets[last.ticket].status = "used"
    /\ tickets[last.ticket].customer = tickets[last.ticket].buyer
    /\ tickets[last.ticket].assigned_mobile = Null
    /\ transfers = << >>

\* C19: a successful transfer to the mobile of an active customer makes
\* that customer the holder, clears the pending assignment and appends one
\* completed TicketTransfer from the previous holder to the recipient; a
\* successful transfer to a mobile without active customer stores the
\* mobile and name as pending assignment, keeps the holder and appends no
\* TicketTransfer.
TransferOutcome ==
    [][\A c \in Mobiles, t \in TicketIds, m \in Recipients, name \in RecipientNames :
          (user_ticket_transfer(c, t, m, name) /\ last'.code = "OK") =>
             IF customers[m].status = "active"
             THEN /\ tickets'[t].customer = m
                  /\ tickets'[t].assigned_mobile = Null
                  /\ tickets'[t].assigned_name = NullStr
                  /\ tickets'[t].assigned_email = NullStr
                  /\ transfers' = Append(transfers, [ticket |-> t,
                                                     from_customer |-> tickets[t].customer,
                                                     to_customer |-> m,
                                                     status |-> "completed"])
             ELSE /\ tickets'[t].customer = tickets[t].customer
                  /\ tickets'[t].assigned_mobile = m
                  /\ tickets'[t].assigned_name = name
                  /\ transfers' = transfers]_vars

\* a ticket transferred to a customer on file
TransferredToActive ==
    /\ last.op = "user_ticket_transfer"
    /\ last.code = "OK"
    /\ Len(transfers) = 1
    /\ transfers[1].ticket = last.ticket
    /\ transfers[1].from_customer = tickets[last.ticket].buyer
    /\ tickets[last.ticket].customer = transfers[1].to_customer
    /\ tickets[last.ticket].customer # tickets[last.ticket].buyer
    /\ tickets[last.ticket].assigned_mobile = Null


\* C20: every change of a ticket's holder, by transfer, gift or the link
\* that completes a pending transfer, appends one TicketTransfer record
\* (ticket, previous holder, new holder, completed); so the latest record
\* of a ticket that no longer belongs to its buyer names its holder.
OwnershipChangeRecorded ==
    [][/\ \A t \in TicketIds :
             tickets'[t].customer # tickets[t].customer =>
                transfers' = Append(transfers, [ticket |-> t,
                                                from_customer |-> tickets[t].customer,
                                                to_customer |-> tickets'[t].customer,
                                                status |-> "completed"])
       /\ \A t \in TicketIds :
             tickets'[t].customer # tickets'[t].buyer =>
                \E i \in 1 .. Len(transfers') :
                   /\ transfers'[i].ticket = t
                   /\ transfers'[i].to_customer = tickets'[t].customer
                   /\ \A j \in i + 1 .. Len(transfers') : transfers'[j].ticket # t]_vars

\* C21: in a transfer the fee is settled before ownership is written: a step
\* that changes a ticket's holder or pending-assignment fields is the save
\* of a transfer request, the fee of that request is the flat
\* transfer_fee_value or price * transfer_fee_value / 100 of the event, and
\* when that fee is positive a completed payment of the caller for this
\* ticket and exactly that amount is already on file before the save.
TransferFeeSettledFirst ==
    [][\A t \in TicketIds :
          (<<tickets'[t].customer, tickets'[t].assigned_name,
             tickets'[t].assigned_mobile, tickets'[t].assigned_email>>
           # <<tickets[t].customer, tickets[t].assigned_name,
               tickets[t].assigned_mobile, tickets[t].assigned_email>>)
          => \E p \in Procs :
                LET event == events[tickets[t].event]
                    fee == IF event.transfer_fee_type = "percentage"
                           THEN (tickets[t].price * event.transfer_fee_value) \div 100
                           ELSE event.transfer_fee_value
                IN /\ procs[p].pc = "save" /\ procs'[p].pc = "record"
                   /\ procs[p].ticket = t
                   /\ event.ticket_transfer_enabled
                   /\ fee > 0
                      => \E i \in DOMAIN payments :
                            payments[i] = [customer |-> procs[p].customer, ticket |-> t,
                                           amount |-> fee, status |-> "completed"]]_vars

\* a ticket of an event with a positive fee has changed hands, and the
\* fee payment is on file
PaidTransferSaved ==
    \E p \in Procs :
        /\ procs[p].pc \in {"record", "done"}
        /\ procs[p].op = "user_ticket_transfer"
        /\ procs[p].transfer_fee > 0
        /\ procs[p].ticket \in TicketIds
        /\ tickets[procs[p].ticket].customer = procs[p].recipient_mobile
        /\ \E i \in DOMAIN payments : payments[i].amount = procs[p].transfer_fee

\* C22: a gift of a valid ticket by its holder to a mobile number with no
\* active customer is answered RECIPIENT_NOT_FOUND and leaves the ticket's
\* holder, buyer, pending-assignment fields and status as they were; and no
\* gift, accepted or not, changes the pending-assignment fields of a ticket.
GiftRejectsUnknownRecipient ==
    [][\A c \in Mobiles, t \in TicketIds, m \in Recipients :
          user_ticket_gift(c, t, m)
          => /\ (/\ tickets[t].customer = c
                 /\ tickets[t].status = "valid"
                 /\ customers[m].status # "active")
                => /\ last'.code = "RECIPIENT_NOT_FOUND"
                   /\ tickets'[t].customer = tickets[t].customer
                   /\ tickets'[t].buyer = tickets[t].buyer
                   /\ tickets'[t].assigned_name = tickets[t].assigned_name
                   /\ tickets'[t].assigned_mobile = tickets[t].assigned_mobile
                   /\ tickets'[t].assigned_email = tickets[t].assigned_email
                   /\ tickets'[t].status = tickets[t].status
             /\ \A u \in TicketIds :
                   /\ tickets'[u].assigned_name = tickets[u].assigned_name
                   /\ tickets'[u].assigned_mobile = tickets[u].assigned_mobile
                   /\ tickets'[u].assigned_email = tickets[u].assigned_email]_vars

\* a gift of a valid ticket to a mobile number nobody has registered was
\* turned down
GiftToUnregisteredRejected ==
    /\ last.op = "user_ticket_gift"
    /\ last.code = "RECIPIENT_NOT_FOUND"
    /\ last.ticket \in TicketIds
    /\ tickets[last.ticket].status = "valid"
    /\ \E m \in Recipients : customers[m].status = "none"

\* C23: for a recipient that is an active customer a gift does what a
\* transfer does: it is turned down when the transfer would be (ticket not
\* valid, caller not the holder, transfers disabled for the event), and
\* otherwise it leaves the recipient as holder, the pending-assignment
\* fields empty, the buyer as it was, and one completed TicketTransfer row
\* from the previous holder to the recipient appended.
GiftEqualsTransfer ==
    [][\A c \in Mobiles, t \in TicketIds, m \in Recipients :
          (user_ticket_gift(c, t, m) /\ customers[m].status = "active")
          => IF transfer_error(c, t) # ""
             THEN /\ last'.code = transfer_error(c, t)
                  /\ tickets' = tickets
                  /\ transfers' = transfers
             ELSE /\ last'.code = "OK"
                  /\ tickets'[t].customer = m
                  /\ tickets'[t].assigned_name = NullStr
                  /\ tickets'[t].assigned_mobile = Null
                  /\ tickets'[t].assigned_email = NullStr
                  /\ tickets'[t].buyer = tickets[t].buyer
                  /\ transfers' = Append(transfers, [ticket |-> t,
                                                     from_customer |-> tickets[t].customer,
                                                     to_customer |-> m,
                                                     status |-> "completed"])]_vars

\* C24: after the linking step for a customer (at the end of
\* user_complete_registration or user_verify_login_otp) every ticket that
\* was valid with the customer's mobile as pending mobile is held by the
\* customer, has empty pending-assignment fields and its buyer as before
\* (the previous holder when it had none), and no valid ticket is left
\* whose pending mobile is the customer's mobile.
LinkTakesAllPending ==
    [][\A m \in Mobiles :
          (/\ \/ last'.op = "user_complete_registration" /\ last'.code = "CREATED"
              \/ last'.op = "user_verify_login_otp" /\ last'.code = "OK"
           /\ \/ user_complete_registration(m)
              \/ \E otp_code \in OtpCodes : user_verify_login_otp(m, otp_code))
          => /\ \A t \in TicketIds :
                   (tickets[t].status = "valid" /\ tickets[t].assigned_mobile = m)
                   => /\ tickets'[t].customer = m
                      /\ tickets'[t].assigned_name = NullStr
                      /\ tickets'[t].assigned_mobile = Null
                      /\ tickets'[t].assigned_email = NullStr
                      /\ tickets'[t].buyer = IF tickets[t].buyer = Null
                                             THEN tickets[t].customer
                                             ELSE tickets[t].buyer
             /\ ~ \E t \in TicketIds :
                     tickets'[t].status = "valid" /\ tickets'[t].assigned_mobile = m]_vars

\* C25: linking is idempotent: in the store left by a linking step for a
\* customer, running the linking step for that customer again changes no
\* ticket (holder, buyer, pending-assignment fields, status).
LinkIdempotent ==
    [][\A m \in Mobiles :
          (/\ \/ last'.op = "user_complete_registration" /\ last'.code = "CREATED"
              \/ last'.op = "user_verify_login_otp" /\ last'.code = "OK"
           /\ \/ user_complete_registration(m)
              \/ \E otp_code \in OtpCodes : user_verify_login_otp(m, otp_code))
          => link(m)' = tickets']_vars

\* a registration has linked a ticket bought by someone else to the new
\* customer
RegistrationLinkedTicket ==
    /\ last.op = "user_complete_registration"
    /\ last.code = "CREATED"
    /\ \E t \in TicketIds, m \in RegMobiles :
          /\ tickets[t].customer = m
          /\ tickets[t].buyer # m
          /\ tickets[t].assigned_mobile = Null

\* C26: when a linking step and a transfer run concurrently on a ticket,
\* each save writes the holder and the three pending-assignment fields
\* together: a step that changes any of them is one request's save and
\* leaves all four as that request set them (a link or a transfer to an
\* active customer: the new holder and no pending assignment; a transfer
\* to a mobile without active customer: the holder the caller read, who is
\* the caller, and the pending assignment), so a pending mobile is never
\* left on a ticket whose holder is the recipient or another transferee;
\* and at every moment the four fields of a ticket are those of the save
\* that completed last.
LinkTransferRaceWholeWrites ==
    /\ [][\A t \in TicketIds :
             (<<tickets'[t].customer, tickets'[t].assigned_name,
                tickets'[t].assigned_mobile, tickets'[t].assigned_email>>
              # <<tickets[t].customer, tickets[t].assigned_name,
                  tickets[t].assigned_mobile, tickets[t].assigned_email>>)
             => \/ procs' = procs /\ last'.op = "user_ticket_transfer"
                \/ \E p \in Procs :
                      /\ procs'[p].wrote = procs[p].wrote \cup {<<t, saves + 1>>}
                      /\ <<tickets'[t].customer, tickets'[t].assigned_name,
                            tickets'[t].assigned_mobile, tickets'[t].assigned_email>>
                         = IF procs[p].op = "user_complete_registration"
                           THEN <<procs[p].customer, NullStr, Null, NullStr>>
                           ELSE IF procs[p].recipient # Null
                           THEN <<procs[p].recipient, NullStr, Null, NullStr>>
                           ELSE <<procs[p].customer, procs[p].recipient_name,
                                  procs[p].recipient_mobile, NullStr>>
                      /\ tickets'[t].assigned_mobile # Null
                         => /\ tickets'[t].customer = procs[p].customer
                            /\ tickets'[t].customer # tickets'[t].assigned_mobile]_vars
    /\ [](\A t \in TicketIds :
            LET writers == {p \in Procs : \E n \in 1 .. saves : <<t, n>> \in procs[p].wrote}
            IN writers # {}
               => \E p \in writers :
                     /\ \E n \in 1 .. saves :
                           /\ <<t, n>> \in procs[p].wrote
                           /\ \A q \in writers, k \in 1 .. saves :
                                 <<t, k>> \in procs[q].wrote => k <= n
                     /\ <<tickets[t].customer, tickets[t].assigned_name,
                           tickets[t].assigned_mobile, tickets[t].assigned_email>>
                        = IF procs[p].op = "user_complete_registration"
                          THEN <<procs[p].customer, NullStr, Null, NullStr>>
                          ELSE IF procs[p].recipient # Null
                          THEN <<procs[p].recipient, NullStr, Null, NullStr>>
                          ELSE <<procs[p].customer, procs[p].recipient_name,
                                 procs[p].recipient_mobile, NullStr>>)

\* a registration's link and a transfer have both saved the same ticket,
\* each after reading it before the other's save
LinkAndTransferBothSaved ==
    \E p, q \in Procs, t \in TicketIds :
        /\ procs[p].op = "user_complete_registration"
        /\ procs[q].op = "user_ticket_transfer"
        /\ procs[p].pc = "done" /\ procs[q].pc = "done"
        /\ \E n, k \in 1 .. saves : <<t, n>> \in procs[p].wrote /\ <<t, k>> \in procs[q].wrote
        /\ procs[p].table[t].assigned_mobile = procs[p].customer
        /\ procs[q].snap.assigned_mobile = procs[p].customer

\* C27: the ticket queries return a ticket to a customer exactly when the
\* customer is its holder, or is its buyer while a pending mobile is set: in
\* particular never to a buyer who is not the holder when no pending mobile
\* is set.  user_ticket_detail answers OK for exactly those tickets, and a
\* non-empty user_tickets_list names one of them.
VisibleIffHolderOrAssigningBuyer ==
    [][/\ \A c \in Mobiles, t \in TicketIds :
             user_ticket_detail(c, t)
             => (last'.code = "OK"
                 <=> \/ tickets[t].customer = c
                     \/ tickets[t].buyer = c /\ tickets[t].assigned_mobile # Null)
       /\ \A c \in Mobiles :
             (user_tickets_list(c) /\ last'.ticket # Null)
             => \/ tickets[last'.ticket].customer = c
                \/ /\ tickets[last'.ticket].buyer = c
                   /\ tickets[last'.ticket].assigned_mobile # Null]_vars

\* C28: visibility follows ownership.  When the buyer A of a ticket gifts
\* or transfers it to an active customer B, the ticket is then returned to B
\* and not to A.  When A assigns it to a mobile number M nobody has
\* registered, the ticket is returned to A for as long as it is held by A
\* with M pending and M unregistered, and after the linking step for M it is
\* returned to the customer of M and to nobody else.
VisibilityFollowsOwnership ==
    /\ [][/\ \A c \in Mobiles, t \in TicketIds, m \in Recipients :
                (/\ last'.code = "OK"
                 /\ m # c
                 /\ customers[m].status = "active"
                 /\ \/ user_ticket_gift(c, t, m)
                    \/ \E name \in RecipientNames : user_ticket_transfer(c, t, m, name)
                 /\ tickets[t].buyer = c)
                => visible(m, t)' /\ ~ visible(c, t)'
          /\ \A m \in RegMobiles :
                (/\ last'.op = "user_complete_registration"
                 /\ last'.code = "CREATED"
                 /\ user_complete_registration(m))
                => \A t \in TicketIds :
                      (tickets[t].status = "valid" /\ tickets[t].assigned_mobile = m)
                      => \A c \in Mobiles : visible(c, t)' <=> c = m]_vars
    /\ [](\A t \in TicketIds :
            (/\ tickets[t].assigned_mobile # Null
             /\ customers[tickets[t].assigned_mobile].status = "none"
             /\ tickets[t].customer = tickets[t].buyer)
            => visible(tickets[t].buyer, t))

\* C29: an OTP is single-use and scoped to its purpose.  verify_otp answers
\* TRUE only when an unused row with the same phone number, code and purpose
\* and with expires_at ahead of now is on file; after a TRUE answer no such
\* row is left, so the same call answers FALSE until a new OTP is created;
\* unused rows are added by create_and_send_otp only; and a row of another
\* purpose is neither matched nor consumed.
OtpSingleUsePurposeScoped ==
    [][/\ \A phone_number \in {1, 2}, purpose \in {"login", "forgot_password"}, code \in OtpCodes :
             (verify_otp_call(phone_number, code, purpose) /\ last'.code = "TRUE")
             => /\ \E otp \in otps :
                      /\ otp.phone_number = phone_number
                      /\ otp.purpose = purpose
                      /\ otp.code = code
                      /\ otp.expires_at > now
                /\ ~ \E otp \in otps' :
                        /\ otp.phone_number = phone_number
                        /\ otp.purpose = purpose
                        /\ otp.code = code
                        /\ otp.expires_at > now'
                /\ \A otp \in otps : otp.purpose # purpose => otp \in otps'
       /\ last'.op # "create_and_send_otp" => otps' \subseteq otps]_vars

\* a code was verified, and the table still holds an unused row that has
\* expired and an unused, unexpired row with the same phone number and code
\* for another purpose
VerifiedBesideOtherRows ==
    /\ last.op = "verify_otp"
    /\ last.code = "TRUE"
    /\ \E o1, o2 \in otps :
          /\ o1.phone_number = o2.phone_number
          /\ o1.code = o2.code
          /\ o1.purpose # o2.purpose
          /\ o1.expires_at <= now
          /\ o2.expires_at > now

\* C30: of two concurrent verify_otp calls with the same phone number, code
\* and purpose that find the same unused, unexpired OTP, at most one answers
\* TRUE, whatever the order of their lookups and mark-used writes.
OtpVerifiedAtMostOnce ==
    \A p, q \in Procs :
        (/\ p # q
         /\ procs[p].op = "verify_otp" /\ procs[q].op = "verify_otp"
         /\ procs[p].otp = procs[q].otp)
        => ~ (procs[p].code = "TRUE" /\ procs[q].code = "TRUE")

\* C31: on the password-reset path the response does not depend on whether
\* the mobile number belongs to a customer: in every store, each request of
\* user_forgot_password_request_otp, user_verify_password_reset_otp and
\* user_reset_password gets the same response with and without a Customer
\* row for its mobile number, and every response given is that response.
ResetResponseHidesAccount ==
    /\ [](\A view \in {"user_forgot_password_request_otp",
                        "user_verify_password_reset_otp", "user_reset_password"},
             m \in Recipients, otp_code \in OtpCodes, sms_ok \in BOOLEAN :
             reset_response(view, m, otp_code, sms_ok, TRUE)
             = reset_response(view, m, otp_code, sms_ok, FALSE))
    /\ [][\A m \in Recipients, otp_code \in OtpCodes :
             (\/ user_verify_password_reset_otp(m, otp_code)
              \/ \E new_password \in {1, 2} : user_reset_password(m, otp_code, new_password))
             => last'.code \in {reset_response(last'.op, m, otp_code, TRUE, TRUE),
                                reset_response(last'.op, m, otp_code, TRUE, FALSE)}]_vars

\* C38: a customer's password changes only in a user_reset_password call
\* for the customer's mobile that consumes an unused, unexpired
\* forgot_password OTP with the code of the request; an OTP consumed by
\* user_verify_password_reset_otp is rejected by user_reset_password
\* afterwards; and no other request of the reset path, whatever token it
\* returned, changes a password.
PasswordResetNeedsLiveOtp ==
    [][/\ \A m \in Mobiles :
             customers'[m].password # customers[m].password
             => /\ last'.op = "user_reset_password"
                /\ last'.code = "OK"
                /\ \E otp \in otps :
                      /\ otp.phone_number = m
                      /\ otp.purpose = "forgot_password"
                      /\ otp.expires_at > now
                      /\ otp \notin otps'
                      /\ \E new_password \in {1, 2} :
                            user_reset_password(m, otp.code, new_password)
       /\ \A m \in Recipients, otp_code \in OtpCodes :
             (/\ last'.op = "user_verify_password_reset_otp"
              /\ last'.code \in {"OK", "USER_NOT_FOUND"}
              /\ user_verify_password_reset_otp(m, otp_code))
             => /\ customers' = customers
                /\ ~ \E otp \in otps' :
                        /\ otp.phone_number = m
                        /\ otp.purpose = "forgot_password"
                        /\ otp.code = otp_code
                        /\ otp.expires_at > now'
                /\ reset_response("user_reset_password", m, otp_code, TRUE, TRUE)'
                   = "INVALID_OTP"]_vars

\* a customer's password was reset by user_reset_password
PasswordWasReset ==
    /\ last.op = "user_reset_password"
    /\ last.code = "OK"
    /\ \E m \in Mobiles : customers[m].password # 0

\* C32: ticket_book applies fully or not at all: a step in which a booking
\* request ends with an error leaves no ticket and no payment row of that
\* booking, and the customer's total_bookings and total_spent as they were.
BookingAllOrNothing ==
    [][\A p \in Procs :
          (/\ procs'[p].op = "ticket_book"
           /\ procs[p].pc # "done"
           /\ procs'[p].pc = "done"
           /\ procs'[p].code # "CREATED")
          => /\ tickets' = tickets
             /\ payments' = payments
             /\ customers' = customers]_vars

\* C33: the price and the category of a ticket are fixed at issuance: no
\* transfer, gift, link, check-in, refund or status update changes them.
PriceAndCategoryFixed ==
    [][\A t \in TicketIds :
          /\ t <= Len(tickets')
          /\ tickets'[t].price = tickets[t].price
          /\ tickets'[t].category = tickets[t].category]_vars

\* C33 witness: a ticket that was given to another customer is used
HandedOverTicketUsed ==
    \E t \in TicketIds : /\ tickets[t].status = "used"
                          /\ tickets[t].customer # tickets[t].buyer

CheckInAndTransferKeepEachOther ==
    [][\A t \in TicketIds :
          /\ tickets[t].status = "used" => tickets'[t].status = "used"
          /\ (tickets[t].status # "used" /\ tickets'[t].status = "used")
             => /\ tickets'[t].customer = tickets[t].customer
                /\ tickets'[t].assigned_name = tickets[t].assigned_name
                /\ tickets'[t].assigned_mobile = tickets[t].assigned_mobile]_vars

\* C36: for the same card and event and an unchanged store, the ticket that
\* usher_scan_result marks used and logs is the ticket that
\* usher_scan_attendee_by_card selected and classified.
CommitActsOnResolvedTicket ==
    [][(/\ last'.op = "usher_scan_result"
        /\ last'.code = "OK"
        /\ Len(logs') = Len(logs) + 1)
       => /\ last'.ticket = candidate_ticket(cards[last'.card].customer, last'.event)
          /\ logs'[Len(logs')].ticket = last'.ticket]_vars

\* C37: after every create_and_send_otp for a phone number and a purpose,
\* the one unused, unexpired OTP of that phone number and purpose is the one
\* just created, and no other code verifies for them.
OneLiveOtpAfterCreate ==
    [][\A phone_number \in {1, 2}, purpose \in {"login", "forgot_password"}, code \in OtpCodes :
          (/\ last'.op = "create_and_send_otp"
           /\ create_and_send_otp_call(phone_number, purpose, code))
          => /\ {otp \in otps' : /\ otp.phone_number = phone_number
                                  /\ otp.purpose = purpose
                                  /\ otp.expires_at > now'}
                  = {[phone_number |-> phone_number, purpose |-> purpose, code |-> code,
                      expires_at |-> now + OtpLifetime]}
             /\ \A earlier \in OtpCodes \ {code} :
                    ~ verify_otp(phone_number, earlier, purpose)']_vars

\* C37 witness: an OTP was created for a phone number and a purpose that
\* have an expired unused row as well
CreatedBesideExpiredOtp ==
    /\ last.op = "create_and_send_otp"
    /\ \E a, b \in otps : /\ a.phone_number = b.phone_number
                           /\ a.purpose = b.purpose
                           /\ a.expires_at <= now
                           /\ b.expires_at = now + OtpLifetime

\* C39: registration is an ordered session: a Customer is created only by a
\* user_complete_registration that finds a live session marked verified,
\* and deletes it; a session is marked verified only by a user_verify_otp
\* that consumes an unused, unexpired registration OTP of the mobile; so a
\* second user_complete_registration creates no further Customer.
RegistrationOrdered ==
    [][\A m \in Mobiles :
          /\ customers'[m].rows # customers[m].rows
             => /\ last'.op = "user_complete_registration"
                /\ reg_cache[m] = "verified"
                /\ reg_cache'[m] = "none"
                /\ customers[m].rows = 0
                /\ customers'[m].rows = 1
          /\ (reg_cache[m] # "verified" /\ reg_cache'[m] = "verified")
             => /\ last'.op = "user_verify_otp"
                /\ reg_cache[m] = "started"
                /\ \E otp \in otps \ otps' : /\ otp.phone_number = m
                                              /\ otp.purpose = "registration"
                                              /\ otp.expires_at > now]_vars

\* C39 witness: a completion after the one that created the customer is
\* answered with the expired session and creates nothing
SecondCompletionCreatesNothing ==
    /\ last.op = "user_complete_registration"
    /\ last.code = "SESSION_EXPIRED"
    /\ \E m \in RegMobiles : customers[m].rows = 1
====
